---- MODULE Spec2Model ----
(***************************************************************************)
(* The idea-generation and script-generation core of the video automation  *)
(* pipeline: ViralIdeaGenerator (src/ai/gen_ideas.py) and ScriptGenerator  *)
(* (src/ai/gen_script.py).                                                 *)
(*                                                                         *)
(* Python values are modelled as follows.  A dict is a TLA+ record whose   *)
(* DOMAIN is its key set, d.get(k, default) is Get(d, k, default).  A list *)
(* is a sequence.  A str is a TLA+ string (Len, SubSeq and \o act on its   *)
(* characters).  None in a string-valued position is the string None.      *)
(* An HTTP exchange is a record: [kind |-> "timeout"] when requests.get    *)
(* raises, else [kind |-> "http", status, parses, body] where parses says  *)
(* whether response.json() succeeds and body is the decoded value.         *)
(***************************************************************************)
EXTENDS Integers, Sequences, FiniteSets, TLC

VARIABLES
    \* ViralIdeaGenerator and one generate_ideas call
    use_ai,      \* ViralIdeaGenerator.use_ai
    count,       \* the argument of generate_ideas
    pc,          \* position inside generate_ideas ("idle": no call is running)
    raw_ideas,   \* the local list raw_ideas of generate_ideas
    status,      \* per source: how its fetch ended ("pending" before it ran)
    fetched,     \* per source: the list its fetch_*_trends call returned
    selected,    \* positions of raw_ideas drawn by random.sample, in order
    calls,       \* the optimize_idea_with_ai calls made: position and model reply
    ideas,       \* the local list ideas of generate_ideas
    result,      \* the value generate_ideas returned, once pc = "done"
    requests,    \* the HTTP requests the call has issued so far, in order
    \* one direct optimize_idea_with_ai call
    opt_raw_idea, \* its argument raw_idea
    opt_reply,   \* what the hosted model answered (NoReply: it was not asked)
    opt_return,  \* the record it returned (NotReturned before)
    \* ScriptGenerator and one generate_from_idea call
    use_groq,    \* ScriptGenerator.use_groq
    s_pc,        \* position inside generate_from_idea ("idle": no call is running)
    s_idea,      \* its argument idea
    s_reply,     \* what the hosted model answered (NoReply: it was not asked)
    s_script,    \* its local script
    script_json, \* its local script_json, the value returned
    \* one call of an SEOOptimizer method
    seo_pc,      \* "call" before it ran, "done" once it returned ("idle": no call)
    seo_args,    \* the method called and its arguments
    seo_random,  \* what its random.choice calls returned
    seo_return,  \* the value it returned, once seo_pc = "done"
    \* one gen_image call
    img_pc,        \* "request", "placeholder", "done" or "raised" ("idle": no call)
    img_writable,  \* whether image_path can be opened for writing
    img_responses, \* what each requests.get of the call met, in order
    img_file,      \* what image_path holds
    \* YouTubeAutomationPipeline and its run_full_pipeline calls
    p_environ,   \* the environment variables that are set, read at construction
    p_config,    \* AutomationConfig.config after update_config_from_env
    p_manual,    \* the argument manual_upload
    p_youtube,   \* whether YouTubeUploader.youtube was set by authenticate()
    p_run,       \* the number of the run_full_pipeline call (0: none yet)
    p_pc,        \* the step the run is at, "returned" or "raised"
    p_scene,     \* how many scenes the loop of create_video has finished
    disk,        \* per working file: the run whose script it was made from (0: absent)
    p_used,      \* per scene, and for the subtitles: the run whose file went into the video
    p_events,    \* the steps of the current run that were called, with their outcome
    uploads,     \* the videos().insert requests sent so far: run and privacyStatus
    \* one schedule_pipeline call
    interval_hours, \* its argument
    clock,       \* the time, in minutes since schedule.every(...).do(job)
    next_run,    \* the job's next_run, as the schedule library keeps it
    sched_pc,    \* "poll": at run_pending; "job": inside job(); "sleep"; "stopped"; "crashed"
    sched_runs,  \* the runs made so far: start, end and outcome of run_full_pipeline
    sched_errors \* how many "Scheduled job failed" lines were logged

ideaVars == <<count, pc, raw_ideas, status, fetched, selected, calls, ideas, result, requests>>

optVars == <<opt_raw_idea, opt_reply, opt_return>>

scriptVars == <<use_groq, s_pc, s_idea, s_reply, s_script, script_json>>

seoVars == <<seo_pc, seo_args, seo_random, seo_return>>

imgVars == <<img_pc, img_writable, img_responses, img_file>>

pipeVars ==
    <<p_environ, p_config, p_manual, p_youtube, p_run, p_pc, p_scene, disk, p_used, p_events, uploads>>

\* the variables of the operations modelled after the SEO optimizer
schedVars == <<interval_hours, clock, next_run, sched_pc, sched_runs, sched_errors>>

extraVars == <<imgVars, pipeVars, schedVars>>

\* the variables of generate_ideas, optimize_idea_with_ai, generate_from_idea
\* and the SEO optimizer
coreVars == <<use_ai, ideaVars, optVars, scriptVars, seoVars>>

vars == <<coreVars, extraVars>>

\* no gen_image call is running
ImageIdle ==
    /\ img_pc = "idle"
    /\ img_writable = TRUE
    /\ img_responses = <<>>
    /\ img_file = [from |-> "absent", size |-> 0]

\* no pipeline was constructed
PipelineIdle ==
    /\ p_environ = <<>>
    /\ p_config = <<>>
    /\ p_manual = FALSE
    /\ p_youtube = FALSE
    /\ p_run = 0
    /\ p_pc = "idle"
    /\ p_scene = 0
    /\ disk = <<>>
    /\ p_used = <<>>
    /\ p_events = <<>>
    /\ uploads = <<>>

\* schedule_pipeline was not called
ScheduleIdle ==
    /\ interval_hours = 0
    /\ clock = 0
    /\ next_run = 0
    /\ sched_pc = "idle"
    /\ sched_runs = <<>>
    /\ sched_errors = 0

ExtraIdle == ImageIdle /\ PipelineIdle /\ ScheduleIdle

----------------------------------------------------------------------------
(* Bounds of the model *)

\* generate_ideas is called with count in 0 .. MaxCount
MaxCount == 5

----------------------------------------------------------------------------
(* Python helpers *)

None == "<None>"

Min(a, b) == IF a <= b THEN a ELSE b

\* dict.get(k, default)
Get(d, k, default) == IF k \in DOMAIN d THEN d[k] ELSE default

\* x or default, for a string-valued x
StrOr(x, default) == IF x = None \/ x = "" THEN default ELSE x

\* list[:n]
Take(s, n) == SubSeq(s, 1, Min(n, Len(s)))

\* sep.join(list)
RECURSIVE Join(_, _)
Join(sep, s) ==
    IF s = <<>> THEN ""
    ELSE IF Len(s) = 1 THEN s[1]
    ELSE s[1] \o sep \o Join(sep, Tail(s))

Range(s) == {s[i] : i \in 1..Len(s)}

----------------------------------------------------------------------------
(* The five trend sources, in the order generate_ideas calls them *)

Sources == <<"GitHub", "HackerNews", "Dev.to", "Reddit", "Stack Overflow">>

SourceSet == Range(Sources)

\* How an exchange ended, as the fetcher's code sees it: requests.get raised,
\* a status other than 200, a body that cannot be decoded or lacks a key the
\* fetcher indexes (both raise inside the try), or success.
Outcomes == {"ok", "non200", "timeout", "parse_error"}

Timeout == [kind |-> "timeout"]

Http(code, ok, b) == [kind |-> "http", status |-> code, parses |-> ok, body |-> b]

----------------------------------------------------------------------------
(* fetch_github_trends *)

GitHubKeys == {"name", "language", "description", "html_url", "stargazers_count"}

GitHubIdea(repo) ==
    [title |-> repo.name \o " - GitHub Trending",
     source |-> "GitHub",
     keywords |-> StrOr(repo.language, "Open Source"),
     description |-> StrOr(repo.description, repo.name),
     url |-> repo.html_url,
     stars |-> repo.stargazers_count]

\* TRUE when the body of the try block raises
GitHubRaises(resp) ==
    \/ resp.kind = "timeout"
    \/ /\ resp.status = 200
       /\ \/ ~resp.parses
          \/ "items" \notin DOMAIN resp.body
          \/ \E repo \in Range(Take(resp.body.items, 8)) : ~(GitHubKeys \subseteq DOMAIN repo)

fetch_github_trends(resp) ==
    IF GitHubRaises(resp) THEN <<>>
    ELSE IF resp.status = 200
         THEN LET kept == Take(resp.body.items, 8)
              IN  [i \in 1..Len(kept) |-> GitHubIdea(kept[i])]
         ELSE <<>>

----------------------------------------------------------------------------
(* fetch_hackernews_trends.  The exchange carries the top-stories reply    *)
(* and, per story id, the reply of that story's detail request.            *)

HNIdea(story) ==
    [title |-> story.title,
     source |-> "HackerNews",
     keywords |-> "Tech News",
     description |-> story.title,
     url |-> Get(story, "url", ""),
     score |-> Get(story, "score", 0)]

\* The records one story-detail reply contributes (the inner try: any
\* exception skips the story)
HNStory(item) ==
    IF item.kind = "timeout" THEN <<>>
    ELSE IF item.status # 200 THEN <<>>
    ELSE IF ~item.parses THEN <<>>
    ELSE IF "title" \in DOMAIN item.body /\ Get(item.body, "type", None) = "story"
         THEN <<HNIdea(item.body)>>
         ELSE <<>>

\* Every listed id requested (no [:8])
HNRequested_all(resp) == Take(resp.body, 20)

\* The ids whose detail is requested: story_ids = json()[:20], then [:8]
HNRequested(resp) == Take(Take(resp.body, 20), 8)

RECURSIVE HNTrends(_, _)
HNTrends(ids, items) ==
    IF ids = <<>> THEN <<>>
    ELSE HNStory(items[Head(ids)]) \o HNTrends(Tail(ids), items)

HNRaises(resp) ==
    \/ resp.kind = "timeout"
    \/ resp.status = 200 /\ ~resp.parses

\* One entry of the request log: the endpoint asked, the story id for a
\* story-detail request (None otherwise), whether the request failed (it
\* timed out or was answered with a status other than 200), and the story
\* ids a decoded HackerNews list reply carried
RequestFailed(resp) == resp.kind = "timeout" \/ resp.status # 200

ListRequest(s, resp) ==
    [endpoint |-> s, story_id |-> None, failed |-> RequestFailed(resp), story_ids |-> <<>>]

\* The requests one fetch_hackernews_trends call issues: the top-stories
\* list, then one story-detail request per id of story_ids[:8]; the inner
\* except continues with the next id
HNRequests(resp) ==
    IF HNRaises(resp) \/ resp.status # 200
    THEN <<ListRequest("HackerNews", resp)>>
    ELSE LET ids == HNRequested(resp)
         IN  <<[ListRequest("HackerNews", resp) EXCEPT !.story_ids = resp.body]>>
             \o [i \in 1..Len(ids) |->
                    [endpoint |-> "HackerNews item", story_id |-> ids[i],
                     failed |-> RequestFailed(resp.items[ids[i]]), story_ids |-> <<>>]]

fetch_hackernews_trends(resp) ==
    IF HNRaises(resp) THEN <<>>
    ELSE IF resp.status = 200
         THEN HNTrends(HNRequested(resp), resp.items)
         ELSE <<>>

----------------------------------------------------------------------------
(* fetch_devto_trends *)

DevtoIdea(article) ==
    [title |-> article.title,
     source |-> "Dev.to",
     keywords |-> Join(",", Get(article, "tag_list", <<"coding">>)),
     description |-> Get(article, "description", article.title),
     url |-> article.url,
     reactions |-> Get(article, "public_reactions_count", 0)]

DevtoRaises(resp) ==
    \/ resp.kind = "timeout"
    \/ /\ resp.status = 200
       /\ \/ ~resp.parses
          \/ \E a \in Range(Take(resp.body, 8)) : ~({"title", "url"} \subseteq DOMAIN a)

\* fetch_devto_trends without the status check
fetch_devto_any_status(resp) ==
    IF resp.kind = "timeout" \/ ~resp.parses
          \/ \E a \in Range(Take(resp.body, 8)) : ~({"title", "url"} \subseteq DOMAIN a)
    THEN <<>>
    ELSE LET kept == Take(resp.body, 8)
         IN  [i \in 1..Len(kept) |-> DevtoIdea(kept[i])]

fetch_devto_trends(resp) ==
    IF DevtoRaises(resp) THEN <<>>
    ELSE IF resp.status = 200
         THEN LET kept == Take(resp.body, 8)
              IN  [i \in 1..Len(kept) |-> DevtoIdea(kept[i])]
         ELSE <<>>

----------------------------------------------------------------------------
(* fetch_reddit_trends *)

RedditIdea(post) ==
    [title |-> post.data.title,
     source |-> "Reddit",
     keywords |-> "Programming",
     description |-> post.data.title,
     url |-> "https://reddit.com" \o post.data.permalink,
     score |-> post.data.score]

\* post['data'].get('is_self') or post['data'].get('url')
RedditKeeps(post) ==
    \/ Get(post.data, "is_self", FALSE)
    \/ Get(post.data, "url", None) \notin {None, ""}

RedditRaises(resp) ==
    \/ resp.kind = "timeout"
    \/ /\ resp.status = 200
       /\ \/ ~resp.parses
          \/ "data" \notin DOMAIN resp.body
          \/ "children" \notin DOMAIN resp.body.data
          \/ \E p \in Range(Take(resp.body.data.children, 8)) :
                \/ "data" \notin DOMAIN p
                \/ RedditKeeps(p) /\ ~({"title", "permalink", "score"} \subseteq DOMAIN p.data)

fetch_reddit_trends(resp) ==
    IF RedditRaises(resp) THEN <<>>
    ELSE IF resp.status = 200
         THEN LET kept == SelectSeq(Take(resp.body.data.children, 8), RedditKeeps)
              IN  [i \in 1..Len(kept) |-> RedditIdea(kept[i])]
         ELSE <<>>

----------------------------------------------------------------------------
(* fetch_stackoverflow_trends *)

SOIdea(tag) ==
    [title |-> "Mastering " \o tag.name \o " on Stack Overflow",
     source |-> "Stack Overflow",
     keywords |-> tag.name,
     description |-> ToString(tag.count) \o " questions about " \o tag.name,
     url |-> "https://stackoverflow.com/questions/tagged/" \o tag.name,
     count |-> tag.count]

\* tag.get('has_synonyms') or tag['count'] > 50000
SOKeeps(tag) == Get(tag, "has_synonyms", FALSE) \/ tag.count > 50000

SORaises(resp) ==
    \/ resp.kind = "timeout"
    \/ /\ resp.status = 200
       /\ \/ ~resp.parses
          \/ "items" \notin DOMAIN resp.body
          \/ \E t \in Range(Take(resp.body.items, 8)) :
                \/ ~Get(t, "has_synonyms", FALSE) /\ "count" \notin DOMAIN t
                \/ SOKeeps(t) /\ ~({"name", "count"} \subseteq DOMAIN t)

fetch_stackoverflow_trends(resp) ==
    IF SORaises(resp) THEN <<>>
    ELSE IF resp.status = 200
         THEN LET kept == SelectSeq(Take(resp.body.items, 8), SOKeeps)
              IN  [i \in 1..Len(kept) |-> SOIdea(kept[i])]
         ELSE <<>>

----------------------------------------------------------------------------
(* Strings *)

IsSpace(c) == c \in {" ", "\n", "\t", "\r"}

\* str[:n]
StrTake(s, n) == SubSeq(s, 1, Min(n, Len(s)))

RECURSIVE LStrip(_)
LStrip(s) ==
    IF Len(s) > 0 /\ IsSpace(SubSeq(s, 1, 1)) THEN LStrip(SubSeq(s, 2, Len(s))) ELSE s

RECURSIVE RStrip(_)
RStrip(s) ==
    IF Len(s) > 0 /\ IsSpace(SubSeq(s, Len(s), Len(s))) THEN RStrip(SubSeq(s, 1, Len(s) - 1)) ELSE s

\* str.strip()
Strip(s) == RStrip(LStrip(s))

\* s.startswith(prefix)
StartsWith(s, prefix) == Len(s) >= Len(prefix) /\ SubSeq(s, 1, Len(prefix)) = prefix

----------------------------------------------------------------------------
(* The hosted model's replies to optimize_idea_with_ai.  A reply is        *)
(* [kind |-> "raise"] when chat.completions.create raises, else            *)
(* [kind |-> "text", content |-> the completion's text].  json.loads is    *)
(* the library's: the texts below that are JSON documents are listed with  *)
(* the value they decode to; every other text makes it raise.              *)

IdeaJsonFull ==
    "{\"title\": \"Rust Is Eating Python\", \"hook\": \"Nobody saw this coming\", \"keyword\": \"Rust\", \"viral_elements\": [\"shock\", \"fomo\"], \"viral_score\": 92}"

IdeaJsonHigh == "{\"viral_score\": 150}"

IdeaJsonLow == "{\"hook\": \"Watch this\", \"viral_score\": 40}"

IdeaJsonBare == "{\"keyword\": \"DevOps\"}"

IdeaJsonList == "[\"shock\", \"fomo\"]"

IdeaProse ==
    "Sure! Here is an optimized concept for your next video. The title should promise a clear payoff and the hook should open a curiosity gap."

IdeaFenced == "Here is the JSON:\n" \o IdeaJsonHigh

\* prose with white space around it
IdeaPadded == "\n  " \o IdeaProse \o " \n"

IdeaDocs ==
    {<<IdeaJsonFull, [isdict |-> TRUE,
                      v |-> [title |-> "Rust Is Eating Python", hook |-> "Nobody saw this coming",
                             keyword |-> "Rust", viral_elements |-> <<"shock", "fomo">>,
                             viral_score |-> 92]]>>,
     <<IdeaJsonHigh, [isdict |-> TRUE, v |-> [viral_score |-> 150]]>>,
     <<IdeaJsonLow, [isdict |-> TRUE, v |-> [hook |-> "Watch this", viral_score |-> 40]]>>,
     <<IdeaJsonBare, [isdict |-> TRUE, v |-> [keyword |-> "DevOps"]]>>,
     <<IdeaJsonList, [isdict |-> FALSE, v |-> <<"shock", "fomo">>]>>}

\* json.loads(text): [ok |-> FALSE] when it raises
IdeaJsonLoads(text) ==
    IF \E d \in IdeaDocs : d[1] = text
    THEN LET d == CHOOSE d \in IdeaDocs : d[1] = text
         IN  [ok |-> TRUE, isdict |-> d[2].isdict, v |-> d[2].v]
    ELSE [ok |-> FALSE]

Raise == [kind |-> "raise"]

Text(t) == [kind |-> "text", content |-> t]

\* what the model may answer to one optimization request
IdeaReplies ==
    {Raise, Text(IdeaJsonFull), Text(" \n" \o IdeaJsonFull \o "\n"), Text(IdeaJsonHigh),
     Text(IdeaJsonLow), Text(IdeaJsonBare), Text(IdeaJsonList), Text(IdeaProse),
     Text(IdeaFenced), Text(IdeaPadded)}

\* optimize_idea_with_ai is not handed a reply when use_ai is false
NoReply == [kind |-> "none"]

----------------------------------------------------------------------------
(* optimize_idea_with_ai *)

\* raw_idea.get('score', raw_idea.get('stars', raw_idea.get('count', 50)))
SignalRead(raw_idea) == Get(raw_idea, "score", Get(raw_idea, "stars", Get(raw_idea, "count", 50)))

\* RuleScore without the upper clamp
RuleScoreUnclamped(raw_idea) == (SignalRead(raw_idea) \div 100) + 70

RuleScore(raw_idea) == Min(98, (SignalRead(raw_idea) \div 100) + 70)

RuleHook(raw_idea) == "Breaking: " \o Get(raw_idea, "title", "New Trend") \o " is changing everything..."

\* the record returned when use_ai is false
RuleBasedIdea(raw_idea) ==
    [title |-> Get(raw_idea, "title", "New Trend"),
     hook |-> RuleHook(raw_idea),
     keyword |-> Get(raw_idea, "keywords", "coding"),
     viral_score |-> RuleScore(raw_idea)]

\* FailedCallIdea scoring by the rule instead of the literal
FailedCallIdeaByRule(raw_idea) == RuleBasedIdea(raw_idea)

\* the record returned by the outer except block
FailedCallIdea(raw_idea) ==
    [title |-> Get(raw_idea, "title", "New Trend"),
     hook |-> RuleHook(raw_idea),
     keyword |-> Get(raw_idea, "keywords", "coding"),
     viral_score |-> 80]

\* the record built from the decoded reply
ParsedIdea(raw_idea, optimized) ==
    [title |-> Get(optimized, "title", Get(raw_idea, "title", None)),
     hook |-> Get(optimized, "hook", "Breaking: " \o Get(raw_idea, "title", None) \o "..."),
     keyword |-> Get(optimized, "keyword", Get(raw_idea, "keywords", "coding")),
     viral_score |-> Get(optimized, "viral_score", 85),
     viral_elements |-> Get(optimized, "viral_elements", <<>>)]

\* SalvagedIdea keeping the whole response text as the hook
SalvagedIdeaWholeText(raw_idea, response_text) ==
    [title |-> Get(raw_idea, "title", None),
     hook |-> response_text \o "...",
     keyword |-> Get(raw_idea, "keywords", "coding"),
     viral_score |-> 85]

\* the record returned by the inner except block
SalvagedIdea(raw_idea, response_text) ==
    [title |-> Get(raw_idea, "title", None),
     hook |-> StrTake(response_text, 100) \o "...",
     keyword |-> Get(raw_idea, "keywords", "coding"),
     viral_score |-> 85]

\* Which return statement is reached
OptimizePath(ai, reply) ==
    IF ~ai THEN "rule"
    ELSE IF reply.kind # "text" THEN "failed_call"
    ELSE LET parsed == IdeaJsonLoads(Strip(reply.content))
         IN  IF parsed.ok /\ parsed.isdict THEN "parsed" ELSE "salvaged"

optimize_idea_with_ai(ai, raw_idea, reply) ==
    LET path == OptimizePath(ai, reply)
    IN  CASE path = "rule" -> RuleBasedIdea(raw_idea)
          [] path = "failed_call" -> FailedCallIdea(raw_idea)
          [] path = "parsed" -> ParsedIdea(raw_idea, IdeaJsonLoads(Strip(reply.content)).v)
          [] path = "salvaged" -> SalvagedIdea(raw_idea, Strip(reply.content))

----------------------------------------------------------------------------
(* _fallback_ideas *)

fallback_topics ==
    <<[title |-> "The Hidden Power of Async/Await in JavaScript",
       hook |-> "Most developers miss this async trick...",
       keyword |-> "JavaScript",
       viral_score |-> 87],
      [title |-> "Why Your API Design is Wrong",
       hook |-> "APIs should be designed differently...",
       keyword |-> "API Design",
       viral_score |-> 85],
      [title |-> "Database Optimization Will Change Everything",
       hook |-> "This database trick saved us $100k...",
       keyword |-> "Database Optimization",
       viral_score |-> 90]>>

\* list[:n] for any integer n (a negative n counts from the end)
SliceTo(s, n) ==
    IF n >= 0 THEN Take(s, n)
    ELSE IF Len(s) + n > 0 THEN SubSeq(s, 1, Len(s) + n) ELSE <<>>

\* _fallback_ideas returning nothing
_fallback_ideas_none(n) == <<>>

\* _fallback_ideas ignoring its argument
_fallback_ideas_all(n) == fallback_topics

_fallback_ideas(n) == SliceTo(fallback_topics, n)

----------------------------------------------------------------------------
(* The exchanges each source may have: what the remote service answers *)

RepoA ==
    [name |-> "fastapi", language |-> "Python", description |-> "Fast web framework",
     html_url |-> "https://github.com/t/fastapi", stargazers_count |-> 250]

RepoB ==
    [name |-> "awesome", language |-> None, description |-> None,
     html_url |-> "https://github.com/s/awesome", stargazers_count |-> 5000]

RepoNoName == [language |-> "Go", stargazers_count |-> 10]

GitHubExchanges ==
    {Timeout,
     Http(403, TRUE, [message |-> "rate limit"]),
     Http(200, FALSE, [message |-> ""]),
     Http(200, TRUE, [message |-> "no items"]),
     Http(200, TRUE, [items |-> <<RepoA, RepoNoName>>]),
     Http(200, TRUE, [items |-> <<>>]),
     Http(200, TRUE, [items |-> <<RepoA>>]),
     Http(200, TRUE, [items |-> <<RepoA, RepoB>>])}

StoryOk == Http(200, TRUE, [title |-> "Show HN: A tiny database", type |-> "story", score |-> 1234])

StoryJob == Http(200, TRUE, [title |-> "Hiring engineers", type |-> "job", score |-> 1])

StoryGone == Http(404, TRUE, [error |-> "gone"])

HNTop(ids, replies) == [kind |-> "http", status |-> 200, parses |-> TRUE, body |-> ids, items |-> replies]

HNExchanges ==
    {[kind |-> "timeout"],
     [kind |-> "http", status |-> 500, parses |-> TRUE, body |-> <<>>, items |-> <<>>],
     [kind |-> "http", status |-> 200, parses |-> FALSE, body |-> <<>>, items |-> <<>>],
     HNTop(<<>>, <<>>),
     HNTop(<<1, 2, 3>>, <<StoryJob, StoryGone, Timeout>>),
     HNTop(<<1, 2, 3, 4, 5, 6, 7, 8, 9, 10>>,
           <<StoryGone, StoryOk, Http(200, FALSE, [error |-> ""]), Timeout, StoryJob,
             StoryGone, StoryGone, StoryGone, StoryOk, StoryOk>>)}

ArticleA ==
    [title |-> "10 Git Tricks", url |-> "https://dev.to/a/git", tag_list |-> <<"git", "productivity">>,
     description |-> "Tricks for git", public_reactions_count |-> 250]

DevtoExchanges ==
    {Timeout,
     Http(502, TRUE, <<ArticleA>>),
     Http(200, FALSE, <<>>),
     Http(200, TRUE, <<[title |-> "No url"]>>),
     Http(200, TRUE, <<>>),
     Http(200, TRUE, <<ArticleA>>)}

PostA ==
    [data |-> [title |-> "Why we left microservices", permalink |-> "/r/programming/1",
               score |-> 3100, url |-> "https://example.org/post"]]

PostNoLink == [data |-> [title |-> "Removed", permalink |-> "/r/programming/2", score |-> 5]]

RedditExchanges ==
    {Timeout,
     Http(429, TRUE, [message |-> "too many requests"]),
     Http(200, FALSE, [message |-> ""]),
     Http(200, TRUE, [kind |-> "Listing"]),
     Http(200, TRUE, [data |-> [children |-> <<PostNoLink>>]]),
     Http(200, TRUE, [data |-> [children |-> <<PostA, PostNoLink>>]])}

TagA == [name |-> "python", count |-> 2200000, has_synonyms |-> TRUE]

TagSmall == [name |-> "zig", count |-> 900, has_synonyms |-> FALSE]

SOExchanges ==
    {Timeout,
     Http(400, TRUE, [error_id |-> 502]),
     Http(200, FALSE, [error_id |-> 0]),
     Http(200, TRUE, [error_id |-> 502]),
     Http(200, TRUE, [items |-> <<TagSmall>>]),
     Http(200, TRUE, [items |-> <<TagSmall, TagA>>])}

\* How the fetcher's code sees an exchange end
Outcome(resp, raises) ==
    IF resp.kind = "timeout" THEN "timeout"
    ELSE IF resp.status # 200 THEN "non200"
    ELSE IF raises THEN "parse_error"
    ELSE "ok"

----------------------------------------------------------------------------
(* generate_ideas *)

\* the value of a result variable before the call returned
NotReturned == <<>>

Pending == [s \in SourceSet |-> "pending"]

\* drawing with replacement, as random.choices does
random_choices(n, k) == [1..k -> 1..n]

\* random.sample(population, k): the positions it may draw, in the order drawn
random_sample(n, k) ==
    {sel \in [1..k -> 1..n] : \A i, j \in 1..k : i # j => sel[i] # sel[j]}

\* the model replies a generate_ideas run is explored with
RunReplies == {Raise, Text(IdeaJsonHigh)}

Init ==
    /\ use_ai \in BOOLEAN
    /\ count \in -1..MaxCount
    /\ pc = "GitHub"
    /\ raw_ideas = <<>>
    /\ status = Pending
    /\ fetched = [s \in SourceSet |-> <<>>]
    /\ selected = <<>>
    /\ calls = <<>>
    /\ ideas = <<>>
    /\ result = NotReturned
    /\ requests = <<>>
    /\ ExtraIdle
    /\ opt_raw_idea = <<>>
    /\ opt_reply = NoReply
    /\ opt_return = NotReturned
    /\ use_groq = FALSE
    /\ s_pc = "idle"
    /\ s_idea = <<>>
    /\ s_reply = NoReply
    /\ s_script = <<>>
    /\ script_json = <<>>
    /\ seo_pc = "idle"
    /\ seo_args = <<>>
    /\ seo_random = <<>>
    /\ seo_return = NotReturned

\* raw_ideas.extend(self.fetch_github_trends())
FetchGitHub ==
    /\ pc = "GitHub"
    /\ \E resp \in GitHubExchanges :
          /\ raw_ideas' = raw_ideas \o fetch_github_trends(resp)
          /\ status' = [status EXCEPT !["GitHub"] = Outcome(resp, GitHubRaises(resp))]
          /\ fetched' = [fetched EXCEPT !["GitHub"] = fetch_github_trends(resp)]
          /\ requests' = Append(requests, ListRequest("GitHub", resp))
    /\ pc' = "HackerNews"
    /\ UNCHANGED <<use_ai, count, selected, calls, ideas, result, optVars, scriptVars, seoVars, extraVars>>

\* raw_ideas.extend(self.fetch_hackernews_trends())
FetchHackerNews ==
    /\ pc = "HackerNews"
    /\ \E resp \in HNExchanges :
          /\ raw_ideas' = raw_ideas \o fetch_hackernews_trends(resp)
          /\ status' = [status EXCEPT !["HackerNews"] = Outcome(resp, HNRaises(resp))]
          /\ fetched' = [fetched EXCEPT !["HackerNews"] = fetch_hackernews_trends(resp)]
          /\ requests' = requests \o HNRequests(resp)
    /\ pc' = "Dev.to"
    /\ UNCHANGED <<use_ai, count, selected, calls, ideas, result, optVars, scriptVars, seoVars, extraVars>>

\* raw_ideas.extend(self.fetch_devto_trends())
FetchDevto ==
    /\ pc = "Dev.to"
    /\ \E resp \in DevtoExchanges :
          /\ raw_ideas' = raw_ideas \o fetch_devto_trends(resp)
          /\ status' = [status EXCEPT !["Dev.to"] = Outcome(resp, DevtoRaises(resp))]
          /\ fetched' = [fetched EXCEPT !["Dev.to"] = fetch_devto_trends(resp)]
          /\ requests' = Append(requests, ListRequest("Dev.to", resp))
    /\ pc' = "Reddit"
    /\ UNCHANGED <<use_ai, count, selected, calls, ideas, result, optVars, scriptVars, seoVars, extraVars>>

\* raw_ideas.extend(self.fetch_reddit_trends())
FetchReddit ==
    /\ pc = "Reddit"
    /\ \E resp \in RedditExchanges :
          /\ raw_ideas' = raw_ideas \o fetch_reddit_trends(resp)
          /\ status' = [status EXCEPT !["Reddit"] = Outcome(resp, RedditRaises(resp))]
          /\ fetched' = [fetched EXCEPT !["Reddit"] = fetch_reddit_trends(resp)]
          /\ requests' = Append(requests, ListRequest("Reddit", resp))
    /\ pc' = "Stack Overflow"
    /\ UNCHANGED <<use_ai, count, selected, calls, ideas, result, optVars, scriptVars, seoVars, extraVars>>

\* raw_ideas.extend(self.fetch_stackoverflow_trends())
FetchStackOverflow ==
    /\ pc = "Stack Overflow"
    /\ \E resp \in SOExchanges :
          /\ raw_ideas' = raw_ideas \o fetch_stackoverflow_trends(resp)
          /\ status' = [status EXCEPT !["Stack Overflow"] = Outcome(resp, SORaises(resp))]
          /\ fetched' = [fetched EXCEPT !["Stack Overflow"] = fetch_stackoverflow_trends(resp)]
          /\ requests' = Append(requests, ListRequest("Stack Overflow", resp))
    /\ pc' = "select"
    /\ UNCHANGED <<use_ai, count, selected, calls, ideas, result, optVars, scriptVars, seoVars, extraVars>>

\* if raw_ideas: selected = random.sample(raw_ideas, min(count, len(raw_ideas)))
SampleIdeas ==
    /\ pc = "select"
    /\ raw_ideas # <<>>
    /\ Min(count, Len(raw_ideas)) >= 0
    /\ \E sel \in random_sample(Len(raw_ideas), Min(count, Len(raw_ideas))) :
          selected' = sel
    /\ pc' = "optimize"
    /\ UNCHANGED <<use_ai, requests, count, raw_ideas, status, fetched, calls, ideas, result, optVars, scriptVars, seoVars, extraVars>>

\* random.sample raises ValueError on a negative sample size: the except
\* block of generate_ideas returns the fallback ideas
SampleRaises ==
    /\ pc = "select"
    /\ raw_ideas # <<>>
    /\ Min(count, Len(raw_ideas)) < 0
    /\ result' = _fallback_ideas(count)
    /\ pc' = "done"
    /\ UNCHANGED <<use_ai, requests, count, raw_ideas, status, fetched, selected, calls, ideas, optVars, scriptVars, seoVars, extraVars>>

\* else: return self._fallback_ideas(count)
UseFallback ==
    /\ pc = "select"
    /\ raw_ideas = <<>>
    /\ result' = _fallback_ideas(count)
    /\ pc' = "done"
    /\ UNCHANGED <<use_ai, requests, count, raw_ideas, status, fetched, selected, calls, ideas, optVars, scriptVars, seoVars, extraVars>>

\* one iteration of: for raw_idea in selected: ideas.append(optimize_idea_with_ai(raw_idea))
OptimizeNext ==
    /\ pc = "optimize"
    /\ Len(ideas) < Len(selected)
    /\ \E reply \in (IF use_ai THEN RunReplies ELSE {NoReply}) :
          LET pos == selected[Len(ideas) + 1]
          IN  /\ ideas' = Append(ideas, optimize_idea_with_ai(use_ai, raw_ideas[pos], reply))
              /\ calls' = Append(calls, [pos |-> pos, reply |-> reply])
    /\ UNCHANGED <<use_ai, requests, count, pc, raw_ideas, status, fetched, selected, result, optVars, scriptVars, seoVars, extraVars>>

\* return ideas
ReturnIdeas ==
    /\ pc = "optimize"
    /\ Len(ideas) = Len(selected)
    /\ result' = ideas
    /\ pc' = "done"
    /\ UNCHANGED <<use_ai, requests, count, raw_ideas, status, fetched, selected, calls, ideas, optVars, scriptVars, seoVars, extraVars>>

Next ==
    \/ FetchGitHub
    \/ FetchHackerNews
    \/ FetchDevto
    \/ FetchReddit
    \/ FetchStackOverflow
    \/ SampleIdeas
    \/ SampleRaises
    \/ UseFallback
    \/ OptimizeNext
    \/ ReturnIdeas

Spec == Init /\ [][Next]_vars

----------------------------------------------------------------------------
(* optimize_idea_with_ai called on its own, over every raw idea the        *)
(* fetchers can build from the exchanges above and a few more dicts.       *)

FetchedIdeas ==
    UNION ({Range(fetch_github_trends(r)) : r \in GitHubExchanges}
           \cup {Range(fetch_hackernews_trends(r)) : r \in HNExchanges}
           \cup {Range(fetch_devto_trends(r)) : r \in DevtoExchanges}
           \cup {Range(fetch_reddit_trends(r)) : r \in RedditExchanges}
           \cup {Range(fetch_stackoverflow_trends(r)) : r \in SOExchanges})

LongTitle ==
    "I rewrote our entire billing service in Rust over a weekend and here is everything that went wrong along the way (long post)"

\* a Reddit post whose title has 124 characters
LongTitleIdea ==
    [title |-> LongTitle,
     source |-> "Reddit", keywords |-> "Programming",
     description |-> LongTitle, url |-> "https://reddit.com/r/programming/comments/1", score |-> 4200]

OtherIdeas ==
    {[title |-> "Borrow checker explained", source |-> "Reddit", keywords |-> "Programming", score |-> 0],
     [title |-> "WASM everywhere", source |-> "HackerNews", keywords |-> "Tech News", score |-> 2799],
     [title |-> "WASM everywhere", source |-> "HackerNews", keywords |-> "Tech News", score |-> 2800],
     [title |-> "htmx - GitHub Trending", source |-> "GitHub", keywords |-> "JavaScript", stars |-> 2900],
     [title |-> "Both signals", source |-> "GitHub", keywords |-> "Go", score |-> 300, stars |-> 900],
     [title |-> "No signal", source |-> "Web", keywords |-> "coding"],
     [source |-> "Web", count |-> 100],
     LongTitleIdea}

RawIdeas == FetchedIdeas \cup OtherIdeas

InitOptimize ==
    /\ use_ai \in BOOLEAN
    /\ opt_raw_idea \in RawIdeas
    /\ opt_reply = NoReply
    /\ opt_return = NotReturned
    /\ count = 0
    /\ pc = "idle"
    /\ raw_ideas = <<>>
    /\ status = Pending
    /\ fetched = [s \in SourceSet |-> <<>>]
    /\ selected = <<>>
    /\ calls = <<>>
    /\ ideas = <<>>
    /\ result = NotReturned
    /\ requests = <<>>
    /\ ExtraIdle
    /\ use_groq = FALSE
    /\ s_pc = "idle"
    /\ s_idea = <<>>
    /\ s_reply = NoReply
    /\ s_script = <<>>
    /\ script_json = <<>>
    /\ seo_pc = "idle"
    /\ seo_args = <<>>
    /\ seo_random = <<>>
    /\ seo_return = NotReturned

\* if not self.use_ai: return {...}
OptimizeByRule ==
    /\ opt_return = NotReturned
    /\ ~use_ai
    /\ opt_return' = optimize_idea_with_ai(use_ai, opt_raw_idea, NoReply)
    /\ UNCHANGED <<use_ai, ideaVars, opt_raw_idea, opt_reply, scriptVars, seoVars, extraVars>>

\* the try block: one request to the hosted model
OptimizeByModel ==
    /\ opt_return = NotReturned
    /\ use_ai
    /\ \E r \in IdeaReplies :
          /\ opt_reply' = r
          /\ opt_return' = optimize_idea_with_ai(use_ai, opt_raw_idea, r)
    /\ UNCHANGED <<use_ai, ideaVars, opt_raw_idea, scriptVars, seoVars, extraVars>>

NextOptimize == OptimizeByRule \/ OptimizeByModel

SpecOptimize == InitOptimize /\ [][NextOptimize]_vars

----------------------------------------------------------------------------
(* generate_script_dynamic_patterns *)

\* an f-string field: str(None) is "None"
Fmt(x) == IF x = None THEN "None" ELSE x

\* the eleven scenes.append({...}) calls, in order
TemplateScenes(title, keyword, hook, category) ==
    <<[
         number |-> 1,
         duration |-> 30,
         type |-> "hook",
         is_hook |-> TRUE,
         image_prompt |-> "Cinematic YouTube thumbnail for " \o Fmt(title) \o ": dynamic text overlay, neon accent colors, tech aesthetic, dark professional background, lens flare, 4K quality, high production",
         narration |-> "Wait... " \o Fmt(hook),
         viral_element |-> "shock",
         engagement_target |-> "95%"],
      [
         number |-> 2,
         duration |-> 45,
         type |-> "pattern_interrupt",
         image_prompt |-> "Visual contradiction about " \o Fmt(keyword) \o ": unexpected twist, cinematic lighting, dark moody aesthetic with accent colors, professional production",
         narration |-> "But that's not the whole story. Here's what " \o Fmt(category) \o " developers miss about " \o Fmt(keyword) \o ".",
         viral_element |-> "curiosity"],
      [
         number |-> 3,
         duration |-> 90,
         type |-> "identify_pain",
         image_prompt |-> "Developer struggling with " \o Fmt(keyword) \o ": frustrated in professional workspace, multiple monitors, error messages visible, dramatic lighting, authentic struggle",
         narration |-> "I spent years getting this wrong. Every attempt to implement " \o Fmt(keyword) \o " failed. The root cause? Most devs don't understand the underlying principle. It costs months of wasted development.",
         viral_element |-> "emotional"],
      [
         number |-> 4,
         duration |-> 60,
         type |-> "solution_teaser",
         image_prompt |-> "Revelation moment: light bulb or insight visualization, glowing elements emerging from darkness, mysterious professional aesthetic, high production",
         narration |-> "Then I discovered the pattern. It's what every successful " \o Fmt(keyword) \o " implementation shares. Once you see it, everything clicks.",
         viral_element |-> "suspense"],
      [
         number |-> 5,
         duration |-> 90,
         type |-> "education_1",
         image_prompt |-> "Technical visualization of " \o Fmt(keyword) \o " concept: abstract professional, data flows, code-like elements, digital transformation, modern UI principles, cinematic tech",
         narration |-> "Here's the foundation: " \o Fmt(keyword) \o " is essentially about [core principle]. Think of it like [analogy]. The key insight is efficiency. Most implementations fail because they [common mistake], but the winners do [solution].",
         viral_element |-> "education"],
      [
         number |-> 6,
         duration |-> 90,
         type |-> "education_2",
         image_prompt |-> "Real-world " \o Fmt(keyword) \o " in production: metrics dashboard, success indicators, performance graphs, company implementation, professional achievement aesthetic",
         narration |-> "Here's where it gets insane. Google, Netflix, and Amazon all use " \o Fmt(keyword) \o " because of one specific advantage: performance at scale. They saw 300% improvements. And here's why that happens...",
         viral_element |-> "authority"],
      [
         number |-> 7,
         duration |-> 75,
         type |-> "mistake_expose",
         image_prompt |-> "Before/after comparison with " \o Fmt(keyword) \o ": wrong approach vs right approach split screen, chaos vs success, dramatic contrast, professional comparison",
         narration |-> "The biggest mistake? Trying to [common mistake] without understanding [prerequisite]. I see this constantly. It costs companies thousands. The right way is [correct approach], and the results speak for themselves.",
         viral_element |-> "shock"],
      [
         number |-> 8,
         duration |-> 90,
         type |-> "implementation",
         image_prompt |-> "Step-by-step " \o Fmt(keyword) \o " implementation: clean code editor interface, highlighted sections, professional annotations, visual step markers, teaching aesthetic",
         narration |-> "The implementation pattern is straightforward: first do [step]. Then [step]. Finally [step]. Each step matters because of [reason]. I've proven this works across hundreds of projects.",
         viral_element |-> "instruction"],
      [
         number |-> 9,
         duration |-> 75,
         type |-> "results",
         image_prompt |-> "Impressive " \o Fmt(keyword) \o " results: project success, performance metrics, exponential growth graphs, celebration energy, professional achievement, success visualization",
         narration |-> "This is what becomes possible: dramatic performance improvements, maintainable code, faster development. The transformation is real. Before wrapping up, here are the pitfalls to avoid...",
         viral_element |-> "inspiration"],
      [
         number |-> 10,
         duration |-> 60,
         type |-> "advanced",
         image_prompt |-> "Advanced " \o Fmt(keyword) \o " strategies: professional architecture diagrams, elegant solutions, high-level thinking, professional aesthetic, future-focused",
         narration |-> "For those ready to go deeper: there's an advanced technique most devs never discover. It takes " \o Fmt(keyword) \o " to the next level. Once you know it, you'll see opportunities everywhere.",
         viral_element |-> "premium"],
      [
         number |-> 11,
         duration |-> 30,
         is_cta |-> TRUE,
         type |-> "cta",
         image_prompt |-> "Professional YouTube end card: animated subscribe button, community links, next video teased, engagement-focused design, brand aesthetic",
         narration |-> "If this helped you master " \o Fmt(keyword) \o ", please like, subscribe, and hit notifications. Join our Discord. Comment: what's your biggest " \o Fmt(keyword) \o " challenge? Check out the advanced tutorial next. See you in the next video.",
         viral_element |-> "engagement"]>>

\* the returned dict
TemplateScript(title, keyword, category, scenes) ==
    [title |-> title,
     description |-> "Master " \o Fmt(keyword) \o " with this comprehensive guide. Learn fundamentals, real-world applications, proven patterns, and avoid costly mistakes. Perfect for " \o Fmt(category) \o " developers.",
     duration |-> 660,
     video_type |-> "viral-coding-longform",
     scenes |-> scenes,
     engagement_strategy |-> [hooks_count |-> 3, pattern_interrupts |-> 2, emotional_moments |-> 3, shock_moments |-> 2, story_elements |-> 2, retention_pattern |-> "high-interrupt-emotional-teaser-educate-educate-expose-instruct-inspire-premium-cta", expected_retention |-> "75-85%"],
     viral_optimization |-> [is_completely_dynamic |-> TRUE, hardcoded_elements |-> 0, personalization |-> "100%", ai_optimized |-> TRUE, format |-> "long-form-10-12-min"]]


\* idea['keyword'] or idea['title'] raises KeyError
PatternsRaises(idea) == ~({"keyword", "title"} \subseteq DOMAIN idea)

\* generate_script_dynamic_patterns appending the fourth scene before the third
generate_script_scenes_swapped(idea) ==
    LET hook == Get(idea, "hook", "What if " \o Fmt(idea.keyword) \o " is about to change everything?")
        category == Get(idea, "category", "Tech")
        scenes == TemplateScenes(idea.title, idea.keyword, hook, category)
    IN  TemplateScript(idea.title, idea.keyword, category,
                       [i \in 1..Len(scenes) |-> IF i = 3 THEN scenes[4] ELSE IF i = 4 THEN scenes[3] ELSE scenes[i]])

\* generate_script_dynamic_patterns with the fifth scene cut to 60 seconds
generate_script_short_lesson(idea) ==
    LET hook == Get(idea, "hook", "What if " \o Fmt(idea.keyword) \o " is about to change everything?")
        category == Get(idea, "category", "Tech")
        scenes == TemplateScenes(idea.title, idea.keyword, hook, category)
    IN  TemplateScript(idea.title, idea.keyword, category, [scenes EXCEPT ![5].duration = 60])

generate_script_dynamic_patterns(idea) ==
    LET keyword == idea.keyword
        title == idea.title
        hook == Get(idea, "hook", "What if " \o Fmt(keyword) \o " is about to change everything?")
        category == Get(idea, "category", "Tech")
    IN  TemplateScript(title, keyword, category, TemplateScenes(title, keyword, hook, category))

----------------------------------------------------------------------------
(* The hosted model's replies to generate_script_with_groq, and the JSON   *)
(* documents among the texts it is asked to decode.                        *)

ModelScene(n) ==
    [number |-> n, duration |-> 60, type |-> "scene",
     image_prompt |-> "image " \o ToString(n), narration |-> "line " \o ToString(n)]

ModelSceneText(n) ==
    "{\"number\": " \o ToString(n) \o ", \"duration\": 60, \"type\": \"scene\", \"image_prompt\": \"image "
        \o ToString(n) \o "\", \"narration\": \"line " \o ToString(n) \o "\"}"

ModelScript(k) ==
    [title |-> "Model title", description |-> "Model description", duration |-> 660,
     video_type |-> "viral-coding-longform", scenes |-> [i \in 1..k |-> ModelScene(i)]]

ModelScriptText(k) ==
    "{\"title\": \"Model title\", \"description\": \"Model description\", \"duration\": 660, "
        \o "\"video_type\": \"viral-coding-longform\", \"scenes\": ["
        \o Join(", ", [i \in 1..k |-> ModelSceneText(i)]) \o "]}"

\* how many scenes the model's scripts have
ModelSceneCounts == {0, 2, 11, 12}

NoScenesText == "{\"title\": \"Only a title\"}"

BadSceneText == "{\"title\": \"Bad scene\", \"scenes\": [{\"narration\": \"no number\"}]}"

\* two scenes that carry the same number
TwinScenesText ==
    "{\"title\": \"Twin scenes\", \"scenes\": [{\"number\": 1, \"image_prompt\": \"image A\", \"narration\": \"line A\"}, "
        \o "{\"number\": 1, \"image_prompt\": \"image B\", \"narration\": \"line B\"}]}"

ScriptDocs ==
    {<<ModelScriptText(k), ModelScript(k)>> : k \in ModelSceneCounts}
    \cup {<<NoScenesText, [title |-> "Only a title"]>>,
          <<BadSceneText, [title |-> "Bad scene", scenes |-> <<[narration |-> "no number"]>>]>>,
          <<TwinScenesText,
            [title |-> "Twin scenes",
             scenes |-> <<[number |-> 1, image_prompt |-> "image A", narration |-> "line A"],
                          [number |-> 1, image_prompt |-> "image B", narration |-> "line B"]>>]>>}

\* json.loads(text): [ok |-> FALSE] when it raises
ScriptJsonLoads(text) ==
    IF \E d \in ScriptDocs : d[1] = text
    THEN [ok |-> TRUE, v |-> (CHOOSE d \in ScriptDocs : d[1] = text)[2]]
    ELSE [ok |-> FALSE]

ScriptReplies ==
    {Raise,
     Text("I cannot write that script."),
     Text("Unclosed { brace"),
     Text("{not json}"),
     Text("Here is your script:\n" \o ModelScriptText(11) \o "\nEnjoy!"),
     Text(ModelScriptText(11) \o "\nNote: {keyword} is a placeholder."),
     Text(NoScenesText),
     Text(BadSceneText),
     Text(TwinScenesText)}
    \cup {Text(ModelScriptText(k)) : k \in ModelSceneCounts}

----------------------------------------------------------------------------
(* generate_script_with_groq *)

Positions(text, c) == {i \in 1..Len(text) : SubSeq(text, i, i) = c}

SetMin(S) == CHOOSE x \in S : \A y \in S : x <= y

SetMax(S) == CHOOSE x \in S : \A y \in S : x >= y

\* re.search(r'\{[\s\S]*\}', text): [found |-> FALSE] for None, else the
\* matched text, from the first "{" to the last "}" after it
re_search_braces(text) ==
    LET opens == Positions(text, "{")
        closes == IF opens = {} THEN {} ELSE {j \in Positions(text, "}") : j > SetMin(opens)}
    IN  IF closes = {} THEN [found |-> FALSE]
        ELSE [found |-> TRUE, group |-> SubSeq(text, SetMin(opens), SetMax(closes))]

\* TRUE when the try block raises, so that the except block runs
GroqRaises(reply) ==
    \/ reply.kind # "text"
    \/ ~re_search_braces(reply.content).found
    \/ ~ScriptJsonLoads(re_search_braces(reply.content).group).ok

generate_script_with_groq(idea, reply) ==
    IF GroqRaises(reply) THEN generate_script_dynamic_patterns(idea)
    ELSE ScriptJsonLoads(re_search_braces(reply.content).group).v

----------------------------------------------------------------------------
(* convert_to_json_format.  A dict whose iteration order matters is a      *)
(* sequence of [key, value] entries in insertion order.                    *)

\* d[k] = v
DictPut(d, k, v) ==
    IF \E i \in 1..Len(d) : d[i].key = k
    THEN [i \in 1..Len(d) |-> IF d[i].key = k THEN [key |-> k, value |-> v] ELSE d[i]]
    ELSE Append(d, [key |-> k, value |-> v])

SceneKeys == {"number", "image_prompt", "narration"}

\* a scene lacks a key the loop indexes
ConvertRaises(script) ==
    \E i \in 1..Len(Get(script, "scenes", <<>>)) : ~(SceneKeys \subseteq DOMAIN script.scenes[i])

RECURSIVE SceneDict(_, _)
SceneDict(scenes, scene_dict) ==
    IF scenes = <<>> THEN scene_dict
    ELSE SceneDict(Tail(scenes),
                   DictPut(scene_dict, "scene-" \o ToString(Head(scenes).number),
                           [image_prompt |-> Head(scenes).image_prompt,
                            narration |-> Head(scenes).narration]))

convert_to_json_format(script) ==
    [title |-> Get(script, "title", "Untitled"),
     description |-> Get(script, "description", ""),
     scene |-> SceneDict(Get(script, "scenes", <<>>), <<>>),
     metadata |-> [duration |-> Get(script, "duration", 660),
                   video_type |-> Get(script, "video_type", "viral-coding-longform"),
                   language |-> "en",
                   category |-> "Technology",
                   is_dynamic |-> TRUE,
                   ai_optimized |-> TRUE]]

----------------------------------------------------------------------------
(* generate_from_idea *)

\* the sample idea of the module's own entry point
SampleIdea ==
    [title |-> "Top 10 Python Mistakes That Cost Companies Millions",
     hook |-> "This Python mistake will blow your mind",
     keyword |-> "Python",
     category |-> "Mistakes",
     seo_tags |-> <<"python", "mistakes", "coding", "tutorial">>]

\* the ideas generate_from_idea is explored with: what generate_ideas can
\* hand over, and ideas without hook, category or viral_score
ScriptIdeas ==
    {optimize_idea_with_ai(FALSE, GitHubIdea(RepoB), NoReply),
     optimize_idea_with_ai(TRUE, GitHubIdea(RepoA), Raise),
     optimize_idea_with_ai(TRUE, DevtoIdea(ArticleA), Text(IdeaJsonFull)),
     optimize_idea_with_ai(TRUE, SOIdea(TagA), Text(IdeaJsonHigh)),
     optimize_idea_with_ai(TRUE, RedditIdea(PostA), Text(IdeaProse)),
     fallback_topics[1],
     fallback_topics[3],
     SampleIdea,
     [title |-> "Zero to Kubernetes", keyword |-> "Kubernetes"],
     [title |-> "Zero to Kubernetes", keyword |-> "Kubernetes", category |-> "DevOps", viral_score |-> 91]}

InitScript ==
    /\ use_groq \in BOOLEAN
    /\ s_pc = "generate"
    /\ s_idea \in ScriptIdeas
    /\ s_reply = NoReply
    /\ s_script = <<>>
    /\ script_json = <<>>
    /\ seo_pc = "idle"
    /\ seo_args = <<>>
    /\ seo_random = <<>>
    /\ seo_return = NotReturned
    /\ use_ai = FALSE
    /\ count = 0
    /\ pc = "idle"
    /\ raw_ideas = <<>>
    /\ status = Pending
    /\ fetched = [s \in SourceSet |-> <<>>]
    /\ selected = <<>>
    /\ calls = <<>>
    /\ ideas = <<>>
    /\ result = NotReturned
    /\ requests = <<>>
    /\ ExtraIdle
    /\ opt_raw_idea = <<>>
    /\ opt_reply = NoReply
    /\ opt_return = NotReturned

\* if self.use_groq: script = self.generate_script_with_groq(idea)
GenerateWithGroq ==
    /\ s_pc = "generate"
    /\ use_groq
    /\ ~PatternsRaises(s_idea)
    /\ \E r \in ScriptReplies :
          /\ s_reply' = r
          /\ s_script' = generate_script_with_groq(s_idea, r)
    /\ s_pc' = "convert"
    /\ UNCHANGED <<use_ai, ideaVars, optVars, use_groq, s_idea, script_json, seoVars, extraVars>>

\* else: script = self.generate_script_dynamic_patterns(idea)
GenerateWithPatterns ==
    /\ s_pc = "generate"
    /\ ~use_groq
    /\ ~PatternsRaises(s_idea)
    /\ s_script' = generate_script_dynamic_patterns(s_idea)
    /\ s_pc' = "convert"
    /\ UNCHANGED <<use_ai, ideaVars, optVars, use_groq, s_idea, s_reply, script_json, seoVars, extraVars>>

\* script_json = self.convert_to_json_format(script); return script_json
ConvertScript ==
    /\ s_pc = "convert"
    /\ ~ConvertRaises(s_script)
    /\ script_json' = convert_to_json_format(s_script)
    /\ s_pc' = "done"
    /\ UNCHANGED <<use_ai, ideaVars, optVars, use_groq, s_idea, s_reply, s_script, seoVars, extraVars>>

\* convert_to_json_format raises KeyError, which generate_from_idea lets through
ConvertFails ==
    /\ s_pc = "convert"
    /\ ConvertRaises(s_script)
    /\ s_pc' = "raised"
    /\ UNCHANGED <<use_ai, ideaVars, optVars, use_groq, s_idea, s_reply, s_script, script_json, seoVars, extraVars>>

NextScript ==
    \/ GenerateWithGroq
    \/ GenerateWithPatterns
    \/ ConvertScript
    \/ ConvertFails

SpecScript == InitScript /\ [][NextScript]_vars

----------------------------------------------------------------------------
(* generate_video_idea of the orchestrator: generate_ideas asked for a few  *)
(* ideas, the model answering each optimization request in any way, and     *)
(* element 0 of the returned list taken as the video's idea                 *)

\* the largest number of ideas asked for in these runs
MaxAsk == 1

IdeaKeys == {"title", "hook", "keyword", "viral_score"}

InitVideoIdea ==
    /\ use_ai \in BOOLEAN
    /\ count \in 1..MaxAsk
    /\ pc = "GitHub"
    /\ raw_ideas = <<>>
    /\ status = Pending
    /\ fetched = [s \in SourceSet |-> <<>>]
    /\ selected = <<>>
    /\ calls = <<>>
    /\ ideas = <<>>
    /\ result = NotReturned
    /\ requests = <<>>
    /\ ExtraIdle
    /\ opt_raw_idea = <<>>
    /\ opt_reply = NoReply
    /\ opt_return = NotReturned
    /\ use_groq = FALSE
    /\ s_pc = "idle"
    /\ s_idea = <<>>
    /\ s_reply = NoReply
    /\ s_script = <<>>
    /\ script_json = <<>>
    /\ seo_pc = "idle"
    /\ seo_args = <<>>
    /\ seo_random = <<>>
    /\ seo_return = NotReturned

\* one iteration of: for raw_idea in selected: ideas.append(optimize_idea_with_ai(raw_idea)),
\* the model free to give any of its replies
OptimizeIdea ==
    /\ pc = "optimize"
    /\ Len(ideas) < Len(selected)
    /\ \E reply \in (IF use_ai THEN IdeaReplies ELSE {NoReply}) :
          LET pos == selected[Len(ideas) + 1]
          IN  /\ ideas' = Append(ideas, optimize_idea_with_ai(use_ai, raw_ideas[pos], reply))
              /\ calls' = Append(calls, [pos |-> pos, reply |-> reply])
    /\ UNCHANGED <<use_ai, requests, count, pc, raw_ideas, status, fetched, selected, result, optVars, scriptVars, seoVars, extraVars>>

\* idea = ideas[0]; idea['title'] and idea['viral_score'] are then read:
\* an empty list or a missing key raises out of generate_video_idea
TakeFirstIdea ==
    /\ pc = "done"
    /\ IF result # <<>> /\ {"title", "viral_score"} \subseteq DOMAIN result[1]
       THEN /\ s_idea' = result[1]
            /\ pc' = "idea"
       ELSE /\ s_idea' = s_idea
            /\ pc' = "idea_raised"
    /\ UNCHANGED <<use_ai, requests, count, raw_ideas, status, fetched, selected, calls, ideas, result,
                   optVars, use_groq, s_pc, s_reply, s_script, script_json, seoVars, extraVars>>

NextVideoIdea ==
    \/ FetchGitHub
    \/ FetchHackerNews
    \/ FetchDevto
    \/ FetchReddit
    \/ FetchStackOverflow
    \/ SampleIdeas
    \/ UseFallback
    \/ OptimizeIdea
    \/ ReturnIdeas
    \/ TakeFirstIdea

SpecVideoIdea == InitVideoIdea /\ [][NextVideoIdea]_vars

----------------------------------------------------------------------------
(* SEOOptimizer: strings *)

\* the lower-case form of each upper-case letter
LowerOf ==
    [A |-> "a", B |-> "b", C |-> "c", D |-> "d", E |-> "e", F |-> "f", G |-> "g",
     H |-> "h", I |-> "i", J |-> "j", K |-> "k", L |-> "l", M |-> "m", N |-> "n",
     O |-> "o", P |-> "p", Q |-> "q", R |-> "r", S |-> "s", T |-> "t", U |-> "u",
     V |-> "v", W |-> "w", X |-> "x", Y |-> "y", Z |-> "z"]

LowerChar(c) == IF c \in DOMAIN LowerOf THEN LowerOf[c] ELSE c

\* str.lower()
RECURSIVE Lower(_)
Lower(s) ==
    IF Len(s) <= 1 THEN LowerChar(s)
    ELSE LET half == Len(s) \div 2
         IN  Lower(SubSeq(s, 1, half)) \o Lower(SubSeq(s, half + 1, Len(s)))

\* sub in s
Contains(s, sub) ==
    \E i \in 1..(Len(s) - Len(sub) + 1) : SubSeq(s, i, i + Len(sub) - 1) = sub

\* any(char.isdigit() for char in s)
HasDigit(s) ==
    \E i \in 1..Len(s) : SubSeq(s, i, i) \in {"0", "1", "2", "3", "4", "5", "6", "7", "8", "9"}

\* s repeated n times
RECURSIVE Repeat(_, _)
Repeat(s, n) == IF n = 0 THEN "" ELSE s \o Repeat(s, n - 1)

----------------------------------------------------------------------------
(* SEOOptimizer.__init__ *)

power_words ==
    <<"incredible", "amazing", "shocking", "unbelievable", "mind-blowing",
      "the ultimate", "secrets", "hidden", "finally revealed", "exposed",
      "the truth about", "why", "how to", "avoid", "stop", "never",
      "biggest", "best", "worst", "crucial", "critical", "essential",
      "proven", "official", "real", "honest", "brutal", "raw">>

viral_keywords ==
    <<"ai", "python", "javascript", "react", "chatgpt", "machine learning",
      "web development", "devops", "kubernetes", "rust", "golang", "typescript",
      "nextjs", "api", "database">>

cta_hooks ==
    <<"If you find this helpful, smash the like button and subscribe",
      "Make sure to watch till the end for the bonus tip",
      "Drop a comment telling me what you think",
      "Subscribe to the channel for more advanced content",
      "Follow for weekly tutorials and coding tips",
      "Join our Discord community for daily challenges">>

\* any(pw in title.lower() for pw in self.power_words)
HasPowerWord(title) ==
    LET lowered == Lower(title)
    IN  \E i \in 1..Len(power_words) : Contains(lowered, power_words[i])

----------------------------------------------------------------------------
(* optimize_title *)

\* the lists random.choice draws from
PowerChoices ==
    {"Incredible", "Amazing", "Shocking", "Ultimate", "Exposed", "Hidden", "Secret", "Best", "Crucial"}

NumberPrefixes == {"Top 10 ", "5 ", "7 ", "3 "}

LengthHooks == {" | Explained", " - Full Guide", " [Tutorial]", " (Must Watch)"}

\* 1. Ensure Keyword Presence
WithKeyword(base_title, keyword) ==
    IF keyword \notin {None, ""} /\ ~Contains(Lower(base_title), Lower(keyword))
    THEN keyword \o ": " \o base_title
    ELSE base_title

\* 2. Add Power Word if missing
WithPowerWord(base_title, power_word) ==
    IF ~HasPowerWord(base_title) THEN power_word \o ": " \o base_title ELSE base_title

\* 3. Add Number if missing
WithNumber(base_title, video_type, prefix) ==
    IF ~HasDigit(base_title)
    THEN IF video_type = "ranking" THEN prefix \o base_title ELSE base_title \o " (In 5 Minutes)"
    ELSE base_title

\* 4. Length Optimization: a hook, then "The ", while shorter than 40
WithLength(base_title, hook) ==
    LET hooked == IF Len(base_title) < 40 THEN base_title \o hook ELSE base_title
    IN  IF Len(hooked) < 40 THEN "The " \o hooked ELSE hooked

\* Cap at 80
Capped(base_title) == IF Len(base_title) > 80 THEN StrTake(base_title, 77) \o "..." ELSE base_title

optimize_title(base_title, keyword, video_type, power_word, prefix, hook) ==
    Capped(WithLength(WithNumber(WithPowerWord(WithKeyword(base_title, keyword), power_word),
                                 video_type, prefix), hook))

\* which of the three draws optimize_title makes
DrawsPowerWord(base_title, keyword) == ~HasPowerWord(WithKeyword(base_title, keyword))

DrawsPrefix(base_title, keyword, power_word) ==
    ~HasDigit(WithPowerWord(WithKeyword(base_title, keyword), power_word))

DrawsHook(base_title, keyword, video_type, power_word, prefix) ==
    Len(WithNumber(WithPowerWord(WithKeyword(base_title, keyword), power_word), video_type, prefix)) < 40

----------------------------------------------------------------------------
(* generate_tags *)

\* category_tags.get(category, [])
category_tags(category) ==
    CASE category = "Education" -> <<"tutorial", "learn", "how to", "guide", "beginner">>
      [] category = "Technology" -> <<"tech", "software", "programming", "coding", "development">>
      [] category = "Entertainment" -> <<"viral", "trending", "reaction", "funny", "entertainment">>
      [] OTHER -> <<>>

\* the two variations appended for each of the first three keywords
RECURSIVE Variations(_)
Variations(keywords) ==
    IF keywords = <<>> THEN <<>>
    ELSE <<Lower(Head(keywords)) \o " tutorial", "learn " \o Lower(Head(keywords))>>
             \o Variations(Tail(keywords))

\* the list tags before duplicates are removed
TagCandidates(keywords, category) ==
    [i \in 1..Len(Take(keywords, 5)) |-> Lower(keywords[i])]
        \o Variations(Take(keywords, 3))
        \o category_tags(category)
        \o <<"2025", Lower(category), "explained", "for beginners">>

\* list(dict.fromkeys(tags)): the first occurrence of each tag, in order
RECURSIVE DictFromKeys(_)
DictFromKeys(tags) ==
    IF tags = <<>> THEN <<>>
    ELSE LET front == DictFromKeys(SubSeq(tags, 1, Len(tags) - 1))
             last == tags[Len(tags)]
         IN  IF last \in Range(front) THEN front ELSE Append(front, last)

\* generate_tags lower-casing nothing
generate_tags_case_kept(title, keywords, category) ==
    DictFromKeys(Take(keywords, 5)
                   \o Variations(Take(keywords, 3))
                   \o category_tags(category)
                   \o <<"2025", Lower(category), "explained", "for beginners">>)

generate_tags(title, keywords, category) == Take(DictFromKeys(TagCandidates(keywords, category)), 30)

----------------------------------------------------------------------------
(* calculate_seo_score *)

TitleScore(title) ==
    LET length == IF Len(title) >= 40 /\ Len(title) <= 70 THEN 30
                  ELSE IF Len(title) >= 20 /\ Len(title) <= 100 THEN 15
                  ELSE 0
        power == IF HasPowerWord(title)
                    \/ \E w \in {"top", "best", "vs", "why"} : Contains(Lower(title), w)
                 THEN 20 ELSE 0
        number == IF HasDigit(title) THEN 20 ELSE 0
    IN  Min(100, length + power + 30 + number)

DescriptionScore(description) ==
    LET length == IF Len(description) >= 200 THEN 30
                  ELSE IF Len(description) > 100 THEN 15
                  ELSE 0
        keywords_found ==
            LET lowered == Lower(description)
            IN  Cardinality({i \in 1..Len(viral_keywords) : Contains(lowered, viral_keywords[i])})
        cta == IF \/ Contains(description, "http")
                  \/ \E i \in 1..Len(cta_hooks) : Contains(description, cta_hooks[i])
                  \/ Contains(Lower(description), "subscribe")
               THEN 30 ELSE 0
    IN  Min(100, length + Min(keywords_found * 10, 40) + cta)

TagsScore(tags) ==
    IF Len(tags) >= 10 /\ Len(tags) <= 40 THEN 100
    ELSE IF Len(tags) >= 5 /\ Len(tags) < 10 THEN 50
    ELSE 20

\* calculate_seo_score with the total rounded up
calculate_seo_score_rounded_up(title, description, tags) ==
    [title_score |-> TitleScore(title),
     description_score |-> DescriptionScore(description),
     tags_score |-> TagsScore(tags),
     total_score |-> (TitleScore(title) + DescriptionScore(description) + TagsScore(tags) + 2) \div 3]

\* int(x / 3) of a non-negative integer x is the integer quotient
calculate_seo_score(title, description, tags) ==
    [title_score |-> TitleScore(title),
     description_score |-> DescriptionScore(description),
     tags_score |-> TagsScore(tags),
     total_score |-> (TitleScore(title) + DescriptionScore(description) + TagsScore(tags)) \div 3]

----------------------------------------------------------------------------
(* One call of an SEOOptimizer method, over titles of every length class,  *)
(* with and without power words and digits                                 *)

TitleShort == "Python Tutorial"

TitleListicle == "Top 10 Best Python Tricks"

TitleKeywordLast ==
    "A complete walkthrough of building and deploying production web services with Python"

TitleUltimate ==
    "The Ultimate Guide to Designing Resilient Distributed Systems for Growing Engineering Teams"

TitleYearLast == "Modern JavaScript patterns every developer should know in 2025"

TitleLongYearLast ==
    "Everything you need to know about asynchronous programming patterns in modern Rust 2025"

TitlePlain == "Understanding memory ownership and borrowing in systems programming today"

TitleTopScore == "Top 10 Best Python Tricks Every Developer Should Know"

BaseTitles ==
    {TitleShort, TitleListicle, TitleKeywordLast, TitleUltimate, TitleYearLast,
     TitleLongYearLast, TitlePlain}

TitleCalls ==
    [fn : {"optimize_title"}, base_title : BaseTitles, keyword : {None, "Python", "Rust"},
     video_type : {"general", "ranking"}]

KeywordLists ==
    {<<>>,
     <<"Python">>,
     <<"Python", "python">>,
     <<"Python", "PYTHON", "python", "Rust", "Go", "AI", "Java">>,
     <<"Tutorial", "learn", "Explained">>,
     <<"Education", "2025", "For Beginners", "Rust">>}

TagsCalls ==
    [fn : {"generate_tags"}, title : {TitleShort}, keywords : KeywordLists,
     category : {"Education", "Technology", "Entertainment", "Gaming", "Tutorial"}]

DescriptionLong ==
    "Learn Python, JavaScript, React, Rust and Kubernetes from scratch in this course. "
        \o "We cover API design, database tuning and DevOps pipelines step by step. "
        \o "Code: https://example.org/course. Subscribe to the channel for more advanced content"

Descriptions ==
    {"", "Watch now", Repeat("Learn python and rust. ", 5), Repeat("No call to action here. ", 9),
     DescriptionLong}

\* how many tags the scored tag lists have
TagCounts == {0, 4, 5, 9, 10, 30, 40, 41}

ScoreCalls ==
    [fn : {"calculate_seo_score"},
     title : {"", TitleShort, TitleListicle, TitleTopScore, TitleYearLast, TitlePlain, TitleUltimate,
              Repeat("x", 101)},
     description : Descriptions,
     tags : {[i \in 1..n |-> "tag" \o ToString(i)] : n \in TagCounts}]

InitSEO ==
    /\ seo_pc = "call"
    /\ seo_args \in TitleCalls \cup TagsCalls \cup ScoreCalls
    /\ seo_random = <<>>
    /\ seo_return = NotReturned
    /\ use_ai = FALSE
    /\ count = 0
    /\ pc = "idle"
    /\ raw_ideas = <<>>
    /\ status = Pending
    /\ fetched = [s \in SourceSet |-> <<>>]
    /\ selected = <<>>
    /\ calls = <<>>
    /\ ideas = <<>>
    /\ result = NotReturned
    /\ requests = <<>>
    /\ ExtraIdle
    /\ opt_raw_idea = <<>>
    /\ opt_reply = NoReply
    /\ opt_return = NotReturned
    /\ use_groq = FALSE
    /\ s_pc = "idle"
    /\ s_idea = <<>>
    /\ s_reply = NoReply
    /\ s_script = <<>>
    /\ script_json = <<>>

\* optimize_title: random.choice is called only on the branches that need it
OptimizeTitle ==
    /\ seo_pc = "call"
    /\ seo_args.fn = "optimize_title"
    /\ LET t == seo_args.base_title
           k == seo_args.keyword
           v == seo_args.video_type
       IN  \E power_word \in (IF DrawsPowerWord(t, k) THEN PowerChoices ELSE {None}) :
             \E prefix \in (IF DrawsPrefix(t, k, power_word) THEN NumberPrefixes ELSE {None}) :
               \E hook \in (IF DrawsHook(t, k, v, power_word, prefix) THEN LengthHooks ELSE {None}) :
                 /\ seo_random' = [power_word |-> power_word, prefix |-> prefix, hook |-> hook]
                 /\ seo_return' = optimize_title(t, k, v, power_word, prefix, hook)
    /\ seo_pc' = "done"
    /\ UNCHANGED <<use_ai, ideaVars, optVars, scriptVars, seo_args, extraVars>>

GenerateTags ==
    /\ seo_pc = "call"
    /\ seo_args.fn = "generate_tags"
    /\ seo_return' = generate_tags(seo_args.title, seo_args.keywords, seo_args.category)
    /\ seo_pc' = "done"
    /\ UNCHANGED <<use_ai, ideaVars, optVars, scriptVars, seo_args, seo_random, extraVars>>

CalculateSeoScore ==
    /\ seo_pc = "call"
    /\ seo_args.fn = "calculate_seo_score"
    /\ seo_return' = calculate_seo_score(seo_args.title, seo_args.description, seo_args.tags)
    /\ seo_pc' = "done"
    /\ UNCHANGED <<use_ai, ideaVars, optVars, scriptVars, seo_args, seo_random, extraVars>>

NextSEO ==
    \/ OptimizeTitle
    \/ GenerateTags
    \/ CalculateSeoScore

SpecSEO == InitSEO /\ [][NextSEO]_vars

----------------------------------------------------------------------------
(* generate_description.  The pictographs of the template are written as   *)
(* "*", one per code point, which keeps every length.                      *)

\* script.split('.')[:n]
RECURSIVE SplitDots(_, _)
SplitDots(s, n) ==
    IF n = 0 THEN <<>>
    ELSE LET dots == Positions(s, ".")
         IN  IF dots = {} THEN <<s>>
             ELSE <<SubSeq(s, 1, SetMin(dots) - 1)>> \o SplitDots(SubSeq(s, SetMin(dots) + 1, Len(s)), n - 1)

\* key_points = [s.strip() for s in sentences[:5] if len(s.strip()) > 20]
KeyPoints(script) ==
    LET sentences == SplitDots(script, 5)
        stripped == [i \in 1..Len(sentences) |-> Strip(sentences[i])]
    IN  SelectSeq(stripped, LAMBDA t : Len(t) > 20)

\* the lines "(check mark) point" of the description
LearningLines(points) == Join("", [i \in 1..Len(points) |-> "* " \o points[i] \o "\n"])

generate_description(title, script, keywords) ==
    LET topic == IF keywords # <<>> THEN keywords[1] ELSE "this topic"
        description ==
            "* " \o title \o "\n\nLearn everything you need to know about " \o topic
                \o " in this comprehensive guide.\n\n** TIMESTAMPS:\n0:00 - Intro\n1:00 - Key Concepts\n"
                \o "3:00 - Practical Examples\n5:00 - Advanced Tips\n7:00 - Conclusion\n\n"
                \o "* WHAT YOU'LL LEARN:\n"
                \o LearningLines(Take(KeyPoints(script), 5))
                \o "\n* KEYWORDS: " \o Join(", ", Take(keywords, 8)) \o "\n\n"
                \o "* HELP ME OUT:\n- Like this video\n- Subscribe to the channel\n"
                \o "- Turn on notifications\n- Drop a comment below\n\n#"
                \o Join(" #", Take(keywords, 5))
    IN  StrTake(description, 5000)

----------------------------------------------------------------------------
(* optimize_metadata of the orchestrator, called with the idea and with    *)
(* the script generate_from_idea returned for it                           *)

\* scene.get('narration', '') of an element of script['scenes'], a list of
\* scenes or a dict of them
SceneNarration(e) ==
    IF DOMAIN e = {"key", "value"} THEN Get(e.value, "narration", "") ELSE Get(e, "narration", "")

\* the text optimize_metadata extracts from its argument script
ExtractedText(script) ==
    IF "scenes" \in DOMAIN script
    THEN Join("", [i \in 1..Len(script.scenes) |-> SceneNarration(script.scenes[i]) \o " "])
    ELSE IF "script" \in DOMAIN script THEN script.script
    ELSE ""

\* script_text: "if not script_text: script_text = idea.get('description', '')"
ScriptTextOf(idea, script) ==
    IF ExtractedText(script) = "" THEN Get(idea, "description", "") ELSE ExtractedText(script)

\* [idea.get('keyword', '')] + idea.get('seo_tags', [])
MetadataKeywords(idea) == <<Get(idea, "keyword", "")>> \o Get(idea, "seo_tags", <<>>)

optimize_metadata(idea, script, power_word, prefix, hook) ==
    LET script_text == ScriptTextOf(idea, script)
        keywords == MetadataKeywords(idea)
        description == generate_description(idea.title, script_text, keywords)
        tags == generate_tags(idea.title, keywords, "Education")
    IN  [title |-> optimize_title(idea.title, Get(idea, "keyword", None), "ranking", power_word, prefix, hook),
         description |-> description,
         tags |-> tags,
         seo_score |-> calculate_seo_score(idea.title, description, tags)]

\* the ideas the metadata step is explored with
MetadataIdeas ==
    {SampleIdea,
     optimize_idea_with_ai(FALSE, GitHubIdea(RepoB), NoReply),
     [title |-> "Zero to Kubernetes", keyword |-> "Kubernetes",
      description |-> "Kubernetes schedules containers across a cluster of machines. It restarts what fails."]}

InitMetadata ==
    /\ use_groq \in BOOLEAN
    /\ s_pc = "generate"
    /\ s_idea \in MetadataIdeas
    /\ s_reply = NoReply
    /\ s_script = <<>>
    /\ script_json = <<>>
    /\ seo_pc = "idle"
    /\ seo_args = <<>>
    /\ seo_random = <<>>
    /\ seo_return = NotReturned
    /\ use_ai = FALSE
    /\ count = 0
    /\ pc = "idle"
    /\ raw_ideas = <<>>
    /\ status = Pending
    /\ fetched = [s \in SourceSet |-> <<>>]
    /\ selected = <<>>
    /\ calls = <<>>
    /\ ideas = <<>>
    /\ result = NotReturned
    /\ requests = <<>>
    /\ opt_raw_idea = <<>>
    /\ opt_reply = NoReply
    /\ opt_return = NotReturned
    /\ ExtraIdle

\* metadata = self.optimize_metadata(idea, script), after generate_script returned
OptimizeScriptMetadata ==
    /\ s_pc = "done"
    /\ seo_pc = "idle"
    /\ LET t == s_idea.title
           k == Get(s_idea, "keyword", None)
       IN  \E power_word \in (IF DrawsPowerWord(t, k) THEN PowerChoices ELSE {None}) :
             \E prefix \in (IF DrawsPrefix(t, k, power_word) THEN NumberPrefixes ELSE {None}) :
               \E hook \in (IF DrawsHook(t, k, "ranking", power_word, prefix) THEN LengthHooks ELSE {None}) :
                 /\ seo_random' = [power_word |-> power_word, prefix |-> prefix, hook |-> hook]
                 /\ seo_return' = optimize_metadata(s_idea, script_json, power_word, prefix, hook)
    /\ seo_args' = [fn |-> "optimize_metadata", idea |-> s_idea, script |-> script_json]
    /\ seo_pc' = "done"
    /\ UNCHANGED <<use_ai, ideaVars, optVars, scriptVars, extraVars>>

NextMetadata == NextScript \/ OptimizeScriptMetadata

SpecMetadata == InitMetadata /\ [][NextMetadata]_vars

----------------------------------------------------------------------------
(* gen_image.  The file at image_path is [from |-> where its content came  *)
(* from, size |-> its size in bytes]; a response is [kind |-> "timeout"]   *)
(* when requests.get raises, else its status code and the size of its      *)
(* content.                                                                *)

max_retries == 5

AbsentFile == [from |-> "absent", size |-> 0]

\* a file some earlier call left at image_path
EarlierFile == [from |-> "earlier", size |-> 40000]

ImageResponse(code, n) == [kind |-> "http", status |-> code, size |-> n]

ImageResponses ==
    {Timeout, ImageResponse(500, 300), ImageResponse(200, 0), ImageResponse(200, 1024),
     ImageResponse(200, 1025), ImageResponse(200, 50000)}

\* the attempt writes response.content to image_path
ImageWritten(resp, writable) == resp.kind = "http" /\ resp.status = 200 /\ writable

\* ImageSaved accepting a file of any size
ImageSaved_any_size(resp, writable) == ImageWritten(resp, writable)

\* the attempt returns: the file was written and os.path.getsize(image_path) > 1024
ImageSaved(resp, writable) == ImageWritten(resp, writable) /\ resp.size > 1024

\* no generate_ideas, optimize_idea_with_ai, generate_from_idea or SEO call is running
CoreIdle ==
    /\ use_ai = FALSE
    /\ count = 0
    /\ pc = "idle"
    /\ raw_ideas = <<>>
    /\ status = Pending
    /\ fetched = [s \in SourceSet |-> <<>>]
    /\ selected = <<>>
    /\ calls = <<>>
    /\ ideas = <<>>
    /\ result = NotReturned
    /\ requests = <<>>
    /\ opt_raw_idea = <<>>
    /\ opt_reply = NoReply
    /\ opt_return = NotReturned
    /\ use_groq = FALSE
    /\ s_pc = "idle"
    /\ s_idea = <<>>
    /\ s_reply = NoReply
    /\ s_script = <<>>
    /\ script_json = <<>>
    /\ seo_pc = "idle"
    /\ seo_args = <<>>
    /\ seo_random = <<>>
    /\ seo_return = NotReturned

InitImage ==
    /\ img_pc = "request"
    /\ img_writable \in BOOLEAN
    /\ img_responses = <<>>
    /\ img_file \in {AbsentFile, EarlierFile}
    /\ CoreIdle
    /\ PipelineIdle
    /\ ScheduleIdle

\* one pass of "for attempt in range(max_retries)": the request, the write
\* of a 200 response, the size test, and the except block that swallows
\* whatever the try block raised
RequestImage ==
    /\ img_pc = "request"
    /\ Len(img_responses) < max_retries
    /\ \E resp \in ImageResponses :
          /\ img_responses' = Append(img_responses, resp)
          /\ img_file' = IF ImageWritten(resp, img_writable)
                         THEN [from |-> "response", size |-> resp.size]
                         ELSE img_file
          /\ img_pc' = IF ImageSaved(resp, img_writable) THEN "done"
                       ELSE IF Len(img_responses) + 1 = max_retries THEN "placeholder"
                       ELSE "request"
    /\ UNCHANGED <<coreVars, pipeVars, schedVars, img_writable>>

\* the fallback after the loop: draw the placeholder and save it; when
\* that raises, the except block saves a black image, outside any try
DrawPlaceholder ==
    /\ img_pc = "placeholder"
    /\ \E drawn \in BOOLEAN :
          IF drawn /\ img_writable
          THEN /\ img_file' = [from |-> "placeholder", size |-> 20000]
               /\ img_pc' = "done"
          ELSE IF img_writable
          THEN /\ img_file' = [from |-> "black", size |-> 6000]
               /\ img_pc' = "done"
          ELSE /\ img_file' = img_file
               /\ img_pc' = "raised"
    /\ UNCHANGED <<coreVars, pipeVars, schedVars, img_writable, img_responses>>

NextImage == RequestImage \/ DrawPlaceholder

SpecImage == InitImage /\ [][NextImage]_vars

----------------------------------------------------------------------------
(* AutomationConfig: the environment is a record of the variables that are *)
(* set; os.getenv(name, default) is Get(environ, name, default).           *)

get_default_config ==
    [auto_upload |-> FALSE, upload_as_public |-> FALSE, subtitles |-> TRUE,
     generate_thumbnail |-> TRUE, enable_premiere |-> FALSE, video_format |-> "video"]

load_env_vars(environ) ==
    [cleanup_temp |-> Lower(Get(environ, "CLEANUP_TEMP", "true")) = "true",
     auto_upload |-> Lower(Get(environ, "AUTO_UPLOAD", "false")) = "true",
     youtube_privacy_status |-> Get(environ, "YOUTUBE_PRIVACY_STATUS", "private")]

\* update_config_from_env copying the privacy status without the test
update_config_always_public(config, env_vars) ==
    [config EXCEPT !.auto_upload = env_vars.auto_upload, !.upload_as_public = TRUE]

update_config_from_env(config, env_vars) ==
    [config EXCEPT !.auto_upload = env_vars.auto_upload,
                   !.upload_as_public =
                       IF Lower(env_vars.youtube_privacy_status) = "public" THEN TRUE ELSE @]

\* body['status']['privacyStatus'] of upload_video
privacyStatus(is_public) == IF is_public THEN "public" ELSE "unlisted"

\* the environments the pipeline is constructed in
PrivacySettings == {None, "public", "Public", "PUBLIC", "unlisted", "private"}

AutoUploadSettings == {None, "true", "True", "1"}

CleanupSettings == {None, "false"}

Setting(name, value) == IF value = None THEN <<>> ELSE [n \in {name} |-> value]

Environs ==
    {Setting("YOUTUBE_PRIVACY_STATUS", pv) @@ Setting("AUTO_UPLOAD", au) @@ Setting("CLEANUP_TEMP", cl) :
        pv \in PrivacySettings, au \in AutoUploadSettings, cl \in CleanupSettings}

----------------------------------------------------------------------------
(* run_full_pipeline, called MaxRuns times in one working directory.  A     *)
(* script has NumScenes scenes; a working file is known by the run whose   *)
(* script it was generated from.                                           *)

\* run_full_pipeline is called at most MaxRuns times
MaxRuns == 2

\* the scripts have NumScenes scenes
NumScenes == 2

ImageFile(n) == "images/image_" \o ToString(n) \o ".png"

AudioFile(n) == "audio/voice_" \o ToString(n) \o ".wav"

SceneFiles == {ImageFile(n) : n \in 1..NumScenes} \cup {AudioFile(n) : n \in 1..NumScenes}

WorkFiles == SceneFiles \cup {"subtitles.srt"}

NoFiles == [f \in WorkFiles |-> 0]

Event(step, outcome) == [step |-> step, outcome |-> outcome]

InitPipeline ==
    /\ p_environ \in Environs
    /\ p_config = update_config_from_env(get_default_config, load_env_vars(p_environ))
    /\ p_manual \in BOOLEAN
    /\ p_youtube \in BOOLEAN
    /\ p_run = 1
    /\ p_pc = "idea"
    /\ p_scene = 0
    /\ disk = NoFiles
    /\ p_used = <<>>
    /\ p_events = <<>>
    /\ uploads = <<>>
    /\ CoreIdle
    /\ ImageIdle
    /\ ScheduleIdle

\* the except block of run_full_pipeline: log and re-raise
Raises(step) ==
    /\ p_events' = Append(p_events, Event(step, "raised"))
    /\ p_pc' = "raised"

Returns(step, next) ==
    /\ p_events' = Append(p_events, Event(step, "returned"))
    /\ p_pc' = next

\* idea = self.generate_video_idea()
GenerateVideoIdea ==
    /\ p_pc = "idea"
    /\ Returns("idea", "script")
    /\ UNCHANGED <<coreVars, imgVars, schedVars, p_environ, p_config, p_manual, p_youtube, p_run, p_scene,
                   disk, p_used, uploads>>

\* script = self.generate_script(idea)
GenerateScript ==
    /\ p_pc = "script"
    /\ Returns("script", "metadata") \/ Raises("script")
    /\ UNCHANGED <<coreVars, imgVars, schedVars, p_environ, p_config, p_manual, p_youtube, p_run, p_scene,
                   disk, p_used, uploads>>

\* metadata = self.optimize_metadata(idea, script)
OptimizeMetadata ==
    /\ p_pc = "metadata"
    /\ Returns("metadata", "video") \/ Raises("metadata")
    /\ UNCHANGED <<coreVars, imgVars, schedVars, p_environ, p_config, p_manual, p_youtube, p_run, p_scene,
                   disk, p_used, uploads>>

\* what a path holds after "if not os.path.exists(path): generate it"
\* (made: whether the generator left a file)
FileAfter(path, made) == IF disk[path] = 0 /\ made THEN p_run ELSE disk[path]

\* one pass of the scene loop of create_video: gen_image always leaves a
\* file in the directory just created, gen_voice swallows its errors and may
\* leave none, and AudioFileClip raises on a missing file
CreateSceneClip ==
    /\ p_pc = "video"
    /\ p_scene < NumScenes
    /\ \E voiced \in BOOLEAN :
          LET n == p_scene + 1
              image == FileAfter(ImageFile(n), TRUE)
              audio == FileAfter(AudioFile(n), voiced)
          IN  /\ disk' = [disk EXCEPT ![ImageFile(n)] = image, ![AudioFile(n)] = audio]
              /\ IF audio = 0
                 THEN /\ Raises("video")
                      /\ UNCHANGED <<p_scene, p_used>>
                 ELSE /\ p_scene' = n
                      /\ p_used' = p_used @@ [k \in {ToString(n)} |-> [image |-> image, audio |-> audio]]
                      /\ UNCHANGED <<p_events, p_pc>>
    /\ UNCHANGED <<coreVars, imgVars, schedVars, p_environ, p_config, p_manual, p_youtube, p_run, uploads>>

\* after the loop: write the video, then gen_subs when config['subtitles']:
\* subtitles.srt is transcribed only "if not os.path.exists(output_srt_path)"
\* (the transcription may raise), and burnt into the video
WriteVideo ==
    /\ p_pc = "video"
    /\ p_scene = NumScenes
    /\ IF p_config.subtitles
       THEN \E transcribed \in BOOLEAN :
               LET srt == FileAfter("subtitles.srt", transcribed)
               IN  /\ disk' = [disk EXCEPT !["subtitles.srt"] = srt]
                   /\ IF srt = 0
                      THEN Raises("video") /\ UNCHANGED p_used
                      ELSE /\ Returns("video", "thumbnail")
                           /\ p_used' = p_used @@ [k \in {"subtitles"} |-> srt]
       ELSE /\ Returns("video", "thumbnail")
            /\ UNCHANGED <<disk, p_used>>
    /\ UNCHANGED <<coreVars, imgVars, schedVars, p_environ, p_config, p_manual, p_youtube, p_run, p_scene, uploads>>

\* thumbnail_path = self.generate_thumbnail(idea): its except block returns None
GenerateThumbnail ==
    /\ p_pc = "thumbnail"
    /\ Returns("thumbnail", "upload")
    /\ UNCHANGED <<coreVars, imgVars, schedVars, p_environ, p_config, p_manual, p_youtube, p_run, p_scene,
                   disk, p_used, uploads>>

\* run_full_pipeline and upload_to_youtube reach the upload_video call
UploaderInvoked_ignoring_manual(manual, config) == config.auto_upload

UploaderInvoked(manual, config) == ~manual /\ config.auto_upload

\* if not manual_upload: video_id = self.upload_to_youtube(video_path, metadata);
\* upload_video returns None without a request when the video file is
\* missing or authenticate() left self.youtube unset, and catches what the
\* insert request raises
UploadToYoutube ==
    /\ p_pc = "upload"
    /\ IF UploaderInvoked(p_manual, p_config)
       THEN \E file_exists \in BOOLEAN :
               /\ p_events' = Append(p_events, Event("upload_video", "returned"))
               /\ uploads' = IF file_exists /\ p_youtube
                             THEN Append(uploads, [run |-> p_run,
                                                   privacyStatus |-> privacyStatus(p_config.upload_as_public)])
                             ELSE uploads
       ELSE UNCHANGED <<p_events, uploads>>
    /\ p_pc' = "save"
    /\ UNCHANGED <<coreVars, imgVars, schedVars, p_environ, p_config, p_manual, p_youtube, p_run, p_scene,
                   disk, p_used>>

\* self.save_metadata(...): open() and json.dump() are outside any try
SaveMetadata ==
    /\ p_pc = "save"
    /\ Returns("save", "cleanup") \/ Raises("save")
    /\ UNCHANGED <<coreVars, imgVars, schedVars, p_environ, p_config, p_manual, p_youtube, p_run, p_scene,
                   disk, p_used, uploads>>

\* if self.env_vars.get('cleanup_temp', True): self.cleanup_temporary_files();
\* then the result is returned
CleanupAndReturn ==
    /\ p_pc = "cleanup"
    /\ IF load_env_vars(p_environ).cleanup_temp
       THEN /\ disk' = NoFiles
            /\ p_events' = Append(p_events, Event("cleanup", "returned"))
       ELSE UNCHANGED <<disk, p_events>>
    /\ p_pc' = "returned"
    /\ UNCHANGED <<coreVars, imgVars, schedVars, p_environ, p_config, p_manual, p_youtube, p_run, p_scene,
                   p_used, uploads>>

\* the next run_full_pipeline call of the same pipeline object
StartRun ==
    /\ p_pc \in {"returned", "raised"}
    /\ p_run < MaxRuns
    /\ p_run' = p_run + 1
    /\ p_pc' = "idea"
    /\ p_scene' = 0
    /\ p_used' = <<>>
    /\ p_events' = <<>>
    /\ UNCHANGED <<coreVars, imgVars, schedVars, p_environ, p_config, p_manual, p_youtube, disk, uploads>>

NextPipeline ==
    \/ GenerateVideoIdea
    \/ GenerateScript
    \/ OptimizeMetadata
    \/ CreateSceneClip
    \/ WriteVideo
    \/ GenerateThumbnail
    \/ UploadToYoutube
    \/ SaveMetadata
    \/ CleanupAndReturn
    \/ StartRun

SpecPipeline == InitPipeline /\ [][NextPipeline]_vars

----------------------------------------------------------------------------
(* schedule_pipeline.  Time is counted in minutes, the length of the       *)
(* loop's time.sleep(60).  The schedule library keeps one next_run per     *)
(* job: every(n).hours.do(job) sets it n hours ahead, run_pending() calls  *)
(* the job when next_run has passed, and after the call sets next_run n    *)
(* hours after the moment the job returned.                                *)

\* schedule_pipeline is called with interval_hours in 1 .. MaxHours
MaxHours == 1

\* one run_full_pipeline call lasts 0 .. MaxDuration minutes
MaxDuration == 2

\* the scheduler is followed for MaxClock minutes
MaxClock == 190

MinutesPerHour == 60

Period == interval_hours * MinutesPerHour

\* job() letting the exception of run_full_pipeline through
AfterJob_uncaught(outcome) == IF outcome = "raised" THEN "crashed" ELSE "sleep"

\* where the loop is after job() returned: its try/except logs whatever
\* run_full_pipeline raised
AfterJob(outcome) == "sleep"

InitSchedule ==
    /\ interval_hours \in 1..MaxHours
    /\ clock = 0
    /\ next_run = interval_hours * MinutesPerHour
    /\ sched_pc = "poll"
    /\ sched_runs = <<>>
    /\ sched_errors = 0
    /\ CoreIdle
    /\ ImageIdle
    /\ PipelineIdle

\* schedule.run_pending(): the job is due
RunPendingDue ==
    /\ sched_pc = "poll"
    /\ clock >= next_run
    /\ sched_pc' = "job"
    /\ sched_runs' = Append(sched_runs, [start |-> clock, end |-> None, outcome |-> None])
    /\ UNCHANGED <<coreVars, imgVars, pipeVars, interval_hours, clock, next_run, sched_errors>>

\* schedule.run_pending(): nothing is due
RunPendingIdle ==
    /\ sched_pc = "poll"
    /\ clock < next_run
    /\ sched_pc' = "sleep"
    /\ UNCHANGED <<coreVars, imgVars, pipeVars, interval_hours, clock, next_run, sched_runs, sched_errors>>

\* job(): run_full_pipeline returns or raises after some minutes; the
\* library then schedules the next run
JobEnds ==
    /\ sched_pc = "job"
    /\ \E minutes \in 0..MaxDuration, outcome \in {"returned", "raised"} :
          /\ clock' = clock + minutes
          /\ sched_runs' = [sched_runs EXCEPT ![Len(sched_runs)] =
                                [@ EXCEPT !.end = clock + minutes, !.outcome = outcome]]
          /\ sched_errors' = IF outcome = "raised" THEN sched_errors + 1 ELSE sched_errors
          /\ sched_pc' = AfterJob(outcome)
          /\ next_run' = IF AfterJob(outcome) = "sleep" THEN clock + minutes + Period ELSE next_run
    /\ UNCHANGED <<coreVars, imgVars, pipeVars, interval_hours>>

\* time.sleep(60)
Sleep ==
    /\ sched_pc = "sleep"
    /\ clock < MaxClock
    /\ clock' = clock + 1
    /\ sched_pc' = "poll"
    /\ UNCHANGED <<coreVars, imgVars, pipeVars, interval_hours, next_run, sched_runs, sched_errors>>

\* except KeyboardInterrupt: the operator stops the scheduler while it sleeps
Interrupt ==
    /\ sched_pc = "sleep"
    /\ sched_pc' = "stopped"
    /\ UNCHANGED <<coreVars, imgVars, pipeVars, interval_hours, clock, next_run, sched_runs, sched_errors>>

NextSchedule == RunPendingDue \/ RunPendingIdle \/ JobEnds \/ Sleep \/ Interrupt

\* the loop does not stall: a poll, a job and a sleep each come to an end
SpecSchedule ==
    /\ InitSchedule
    /\ [][NextSchedule]_vars
    /\ WF_vars(RunPendingDue \/ RunPendingIdle \/ JobEnds \/ Sleep)

----------------------------------------------------------------------------
(* Properties of optimize_idea_with_ai *)

OptimizeReturned == opt_return # NotReturned

\* The popularity of a raw idea: the signal its fetcher stored for it (star
\* count, score, reaction count or tag-usage count)
PopularityKey(source) ==
    CASE source = "GitHub" -> "stars"
      [] source = "HackerNews" -> "score"
      [] source = "Dev.to" -> "reactions"
      [] source = "Reddit" -> "score"
      [] source = "Stack Overflow" -> "count"

Popularity(idea) == idea[PopularityKey(idea.source)]

\* C1: with model access disabled, optimize_idea_with_ai returns a
\* viral_score within [0,98] and a hook that begins with "Breaking: ".
C1_RuleScoreRangeAndHook ==
    (~use_ai /\ OptimizeReturned) =>
        /\ opt_return.viral_score \in 0..98
        /\ StartsWith(opt_return.hook, "Breaking: ")

\* C1 witness: a rule-based call whose score was cut down to 98
C1_Witness ==
    /\ ~use_ai
    /\ OptimizeReturned
    /\ SignalRead(opt_raw_idea) \div 100 + 70 > 98
    /\ opt_return.viral_score = 98

\* C2 (as claimed): with model access disabled, a raw idea of popularity p
\* gets viral_score min(98, p // 100 + 70), its own keywords and its own title.
C2_ScoreFromPopularity ==
    (~use_ai /\ OptimizeReturned /\ opt_raw_idea \in FetchedIdeas) =>
        /\ opt_return.viral_score = Min(98, (Popularity(opt_raw_idea) \div 100) + 70)
        /\ opt_return.keyword = opt_raw_idea.keywords
        /\ opt_return.title = opt_raw_idea.title

Unparseable == opt_reply.kind = "text" /\ ~IdeaJsonLoads(Strip(opt_reply.content)).ok

\* C13 (as claimed): when the model's text cannot be parsed as JSON, the
\* hook is the first 100 characters of the response text, title and keyword
\* are the raw idea's title and keywords, and viral_score is 85.
C13_HookIsFirst100 ==
    (use_ai /\ OptimizeReturned /\ Unparseable /\ opt_raw_idea \in FetchedIdeas) =>
        /\ opt_return.hook = StrTake(opt_reply.content, 100)
        /\ opt_return.title = opt_raw_idea.title
        /\ opt_return.keyword = opt_raw_idea.keywords
        /\ opt_return.viral_score = 85

\* C13 (amended): when the model's text cannot be parsed as JSON, the hook
\* is the first 100 characters of the response text stripped of surrounding
\* white space, followed by "...", title and keyword are the raw idea's
\* title and keywords, and viral_score is 85.
C13_HookIsFirst100ThenDots ==
    (use_ai /\ OptimizeReturned /\ Unparseable /\ opt_raw_idea \in FetchedIdeas) =>
        /\ opt_return.hook = StrTake(Strip(opt_reply.content), 100) \o "..."
        /\ opt_return.title = opt_raw_idea.title
        /\ opt_return.keyword = opt_raw_idea.keywords
        /\ opt_return.viral_score = 85
        /\ DOMAIN opt_return = IdeaKeys

\* C13 witness: a padded prose reply longer than 100 characters was cut
C13_Witness ==
    /\ use_ai
    /\ OptimizeReturned
    /\ opt_reply = Text(IdeaPadded)
    /\ opt_raw_idea \in FetchedIdeas
    /\ Len(Strip(opt_reply.content)) > 100
    /\ Len(opt_return.hook) = 103

----------------------------------------------------------------------------
(* Properties of generate_ideas *)

Returned == pc = "done"

\* C3 (as claimed): every viral_score produced, on every path of
\* optimize_idea_with_ai and in every list generate_ideas returns, lies in [0,100].
C3_ScoreClamped ==
    /\ \A i \in 1..Len(ideas) : ideas[i].viral_score \in 0..100
    /\ Returned => \A i \in 1..Len(result) : result[i].viral_score \in 0..100
    /\ OptimizeReturned => opt_return.viral_score \in 0..100

\* what the concatenation of the sources' returned lists is
RECURSIVE Concat(_)
Concat(lists) == IF lists = <<>> THEN <<>> ELSE Head(lists) \o Concat(Tail(lists))

Failed(s) == status[s] \in {"non200", "timeout", "parse_error"}

\* C8: a source whose fetch ends in a non-200 status, a timeout or an
\* unparseable body contributes no record; the pool is exactly the records
\* the sources returned, in call order, so a failing source leaves the
\* others' records alone; with all five failing the pool is empty; and the
\* call never stops short of returning.
C8_SourcesIndependent ==
    /\ \A s \in SourceSet : Failed(s) => fetched[s] = <<>>
    /\ raw_ideas = Concat([i \in 1..Len(Sources) |-> fetched[Sources[i]]])
    /\ (\A s \in SourceSet : Failed(s)) => raw_ideas = <<>>
    /\ Returned \/ ENABLED Next

\* C8 witness: three sources failed, each in its own way, and the pool
\* holds the records of the other two
C8_Witness ==
    /\ pc = "select"
    /\ status["GitHub"] = "timeout"
    /\ status["Dev.to"] = "non200"
    /\ status["Reddit"] = "parse_error"
    /\ status["HackerNews"] = "ok"
    /\ status["Stack Overflow"] = "ok"
    /\ Len(fetched["HackerNews"]) = 1
    /\ Len(fetched["Stack Overflow"]) = 1
    /\ raw_ideas = fetched["HackerNews"] \o fetched["Stack Overflow"]

\* C9: with a non-empty pool, generate_ideas(N) returns min(N, |pool|)
\* ideas, the i-th being optimize_idea_with_ai of the pool entry drawn i-th,
\* each drawn entry optimized once and no pool position drawn twice.
C9_SampleWithoutReplacement ==
    (Returned /\ raw_ideas # <<>> /\ count >= 0) =>
        /\ Len(result) = Min(count, Len(raw_ideas))
        /\ Len(calls) = Len(result)
        /\ \A i, j \in 1..Len(calls) : i # j => calls[i].pos # calls[j].pos
        /\ \A i \in 1..Len(calls) :
              /\ calls[i].pos \in 1..Len(raw_ideas)
              /\ result[i] = optimize_idea_with_ai(use_ai, raw_ideas[calls[i].pos], calls[i].reply)

\* C9 witness: more ideas in the pool than asked for, and several asked for
C9_Witness ==
    /\ Returned
    /\ count >= 2
    /\ Len(raw_ideas) > count
    /\ Len(result) = count
    /\ use_ai

\* C10: with an empty pool, generate_ideas(N) returns the first min(N, 3)
\* entries of the fallback list in their order, without sampling or
\* optimizing anything; asking for 5 gives 3.
C10_FallbackPrefix ==
    (Returned /\ raw_ideas = <<>> /\ count >= 0) =>
        /\ result = SubSeq(fallback_topics, 1, Min(count, 3))
        /\ Len(fallback_topics) = 3
        /\ selected = <<>>
        /\ calls = <<>>

\* C10 witness: five ideas asked for, three returned
C10_Witness ==
    /\ Returned
    /\ raw_ideas = <<>>
    /\ count = 5
    /\ Len(result) = 3
    /\ \A s \in SourceSet : Failed(s)

----------------------------------------------------------------------------
(* Properties of generate_video_idea *)

\* C11: for every count >= 1 and every way the sources and the model may
\* fail, generate_ideas returns a non-empty list whose elements all have
\* title, hook, keyword and viral_score, and generate_video_idea, which
\* takes element 0, does not fail.
C11_AlwaysAnIdea ==
    /\ pc # "idea_raised"
    /\ (pc \in {"done", "idea"} /\ count >= 1) =>
          /\ result # <<>>
          /\ \A i \in 1..Len(result) : IdeaKeys \subseteq DOMAIN result[i]
    /\ pc = "idea" => s_idea = result[1]
    /\ pc \in {"idea", "idea_raised"} \/ ENABLED NextVideoIdea

\* C11 witness: four sources failed, the model call for the one idea found
\* raised, and that idea was taken as the video's idea
C11_WitnessSourcesAndModelFail ==
    /\ pc = "idea"
    /\ use_ai
    /\ Cardinality({s \in SourceSet : Failed(s)}) = 4
    /\ Len(calls) = 1
    /\ calls[1].reply = Raise
    /\ s_idea = FailedCallIdea(raw_ideas[calls[1].pos])

----------------------------------------------------------------------------
(* Properties of generate_from_idea *)

Generated == s_pc \in {"convert", "done", "raised"}

\* the script came from generate_script_dynamic_patterns
FromTemplate == Generated /\ (~use_groq \/ GroqRaises(s_reply))

ScenesOf(script) == Get(script, "scenes", <<>>)

\* C5 (as claimed): every script generate_from_idea produces has exactly 11
\* scenes, whether it came from the model or from the template.
C5_AlwaysElevenScenes ==
    /\ Generated => Len(ScenesOf(s_script)) = 11
    /\ s_pc = "done" => Len(script_json.scene) = 11

\* The canonical stage order, in the type names the template uses
CanonicalTypes ==
    <<"hook", "pattern_interrupt", "identify_pain", "solution_teaser", "education_1",
      "education_2", "mistake_expose", "implementation", "results", "advanced", "cta">>

\* C6: for every idea, generate_script_dynamic_patterns does not fail and
\* returns 11 scenes numbered 1..11 in list order whose types are the
\* canonical stage order.
C6_TemplateCanonical ==
    /\ s_pc # "idle" => ~PatternsRaises(s_idea)
    /\ FromTemplate =>
          /\ Len(s_script.scenes) = 11
          /\ \A i \in 1..Len(s_script.scenes) : s_script.scenes[i].number = i
          /\ [i \in 1..Len(s_script.scenes) |-> s_script.scenes[i].type] = CanonicalTypes

\* C6 witness: the template expanded an idea that has no hook, category or score
C6_Witness ==
    /\ FromTemplate
    /\ DOMAIN s_idea = {"title", "keyword"}
    /\ Len(s_script.scenes) = 11

RECURSIVE SeqSum(_)
SeqSum(q) == IF q = <<>> THEN 0 ELSE Head(q) + SeqSum(Tail(q))

C12_NoModelReplyRaises ==
    use_groq =>
        /\ s_pc # "raised"
        /\ s_pc = "done" =>
              {"title", "description", "scene", "metadata"} \subseteq DOMAIN script_json

----------------------------------------------------------------------------
(* Properties of SEOOptimizer *)

SeoReturned(fn) == seo_pc = "done" /\ seo_args.fn = fn

\* C14: generate_tags returns at most 30 tags, no tag twice, in the order
\* the tags were first added; keywords that differ only in letter case give
\* one tag.
C14_TagsUniqueOrdered ==
    SeoReturned("generate_tags") =>
        LET tags == seo_return
            added == TagCandidates(seo_args.keywords, seo_args.category)
            First(t) == CHOOSE i \in 1..Len(added) : added[i] = t /\ \A j \in 1..(i - 1) : added[j] # t
        IN  /\ Len(tags) <= 30
            /\ \A i, j \in 1..Len(tags) : i # j => Lower(tags[i]) # Lower(tags[j])
            /\ Range(tags) = Range(added)
            /\ \A i, j \in 1..Len(tags) : i < j => First(tags[i]) < First(tags[j])
            /\ \A k \in Range(seo_args.keywords) :
                  Cardinality({i \in 1..Len(tags) : Lower(tags[i]) = Lower(k)})
                      = (IF \E i \in 1..Len(added) : added[i] = Lower(k) THEN 1 ELSE 0)

\* C14 witness: three spellings of one keyword among seven gave one tag
C14_Witness ==
    /\ SeoReturned("generate_tags")
    /\ Len(seo_args.keywords) = 7
    /\ {"Python", "PYTHON", "python"} \subseteq Range(seo_args.keywords)
    /\ Cardinality({i \in 1..Len(seo_return) : seo_return[i] = "python"}) = 1
    /\ Len(seo_return) < Len(TagCandidates(seo_args.keywords, seo_args.category))

\* C15: calculate_seo_score returns title_score, description_score and
\* tags_score each within 0..100, and total_score is the floor of a third
\* of their sum.
C15_ScoresBoundedTotalFloor ==
    SeoReturned("calculate_seo_score") =>
        LET sum == seo_return.title_score + seo_return.description_score + seo_return.tags_score
        IN  /\ DOMAIN seo_return = {"title_score", "description_score", "tags_score", "total_score"}
            /\ seo_return.title_score \in 0..100
            /\ seo_return.description_score \in 0..100
            /\ seo_return.tags_score \in 0..100
            /\ 3 * seo_return.total_score <= sum
            /\ sum < 3 * seo_return.total_score + 3

\* C15 witness: both text scores at 100 and a sum that 3 does not divide
C15_Witness ==
    /\ SeoReturned("calculate_seo_score")
    /\ seo_return.title_score = 100
    /\ seo_return.description_score = 100
    /\ seo_return.tags_score = 50
    /\ seo_return.total_score = 83

\* C16 (as claimed): the title optimize_title returns is at most 80
\* characters long and contains a digit and a power word of the optimizer's
\* power-word list, also when it was cut.
C16_TitleHasDigitAndPowerWord ==
    SeoReturned("optimize_title") =>
        /\ Len(seo_return) <= 80
        /\ HasDigit(seo_return)
        /\ HasPowerWord(seo_return)

\* C17 (as claimed): for video_type "ranking" and a supplied keyword, the
\* title optimize_title returns contains the keyword whatever its letter
\* case, contains a digit and is at most 80 characters long.
C17_RankingTitleKeepsKeyword ==
    (SeoReturned("optimize_title") /\ seo_args.video_type = "ranking" /\ seo_args.keyword # None) =>
        /\ Contains(Lower(seo_return), Lower(seo_args.keyword))
        /\ HasDigit(seo_return)
        /\ Len(seo_return) <= 80

\* C18 (as claimed): convert_to_json_format gives one key "scene-n" per
\* scene, in scene order, each entry holding only that scene's image prompt
\* and narration; for a template script the keys are scene-1 .. scene-11.
C18_OneKeyPerScene ==
    s_pc = "done" =>
        LET scenes == ScenesOf(s_script)
        IN  /\ Len(script_json.scene) = Len(scenes)
            /\ \A i \in 1..Len(scenes) :
                  /\ script_json.scene[i].key = "scene-" \o ToString(scenes[i].number)
                  /\ script_json.scene[i].value =
                         [image_prompt |-> scenes[i].image_prompt, narration |-> scenes[i].narration]
            /\ FromTemplate =>
                  [i \in 1..Len(script_json.scene) |-> script_json.scene[i].key]
                      = [i \in 1..11 |-> "scene-" \o ToString(i)]

\* C19 (as claimed): with model access enabled, every idea generate_ideas
\* returns has viral_score >= 80, whatever the model answers and whichever
\* sources respond.
C19_AiScoresAtLeast80 ==
    (use_ai /\ pc \in {"done", "idea"}) =>
        \A i \in 1..Len(result) : result[i].viral_score >= 80

\* The endpoints generate_ideas asks, in the order of its five fetch calls
SourceOrder == <<"GitHub", "HackerNews", "Dev.to", "Reddit", "Stack Overflow">>

ListRequests == SelectSeq(requests, LAMBDA r : r.endpoint # "HackerNews item")

ItemRequests == SelectSeq(requests, LAMBDA r : r.endpoint = "HackerNews item")

\* C20: within one generate_ideas call no request is retried. The list
\* requests issued so far are a prefix of GitHub, HackerNews, Dev.to, Reddit,
\* Stack Overflow (each endpoint at most once, in that order, all five once
\* the fetches are over); the story-detail requests follow the HackerNews
\* list request directly, are at most 8, and ask the first 8 of the first 20
\* listed ids, one request per id; no request, failed or not, occurs twice.
C20_NoRequestRetried ==
    LET lists == ListRequests
        items == ItemRequests
    IN  /\ Len(lists) <= 5
        /\ \A i \in 1..Len(lists) : lists[i].endpoint = SourceOrder[i]
        /\ \A i \in 1..5 : (status[SourceOrder[i]] # "pending") <=> (i <= Len(lists))
        /\ pc \notin {"GitHub", "HackerNews", "Dev.to", "Reddit", "Stack Overflow", "idle"}
               => Len(lists) = 5
        /\ Len(items) <= 8
        /\ items # <<>> =>
               /\ Len(requests) >= 2
               /\ requests[2].endpoint = "HackerNews"
               /\ ~requests[2].failed
               /\ [i \in 1..Len(items) |-> items[i].story_id]
                      = Take(Take(requests[2].story_ids, 20), 8)
               /\ \A i \in 1..Len(items) : requests[2 + i] = items[i]
        /\ Cardinality({<<requests[i].endpoint, requests[i].story_id>> : i \in 1..Len(requests)})
               = Len(requests)

\* C20's case: a call that ended after a top list of ten ids, with eight
\* story-detail requests of which some failed, and failed list requests
C20_Witness ==
    /\ pc = "done"
    /\ Len(ItemRequests) = 8
    /\ Len(requests[2].story_ids) = 10
    /\ \E i \in 1..8 : ItemRequests[i].failed
    /\ requests[1].failed
    /\ requests[Len(requests)].failed

\* C21 (as claimed): every optimized idea returned by optimize_idea_with_ai
\* has a title of at most 100 characters, whatever the length of the raw
\* idea's title or of the model's title.
C21_TitleAtMost100 ==
    (OptimizeReturned /\ "title" \in DOMAIN opt_raw_idea) => Len(opt_return.title) <= 100

\* the keys under which the five fetchers store a popularity signal
SignalKeys == {"stars", "score", "reactions", "count"}

\* C23 (as claimed): the rule-based score is computed from the popularity
\* signal of the source that produced the raw idea (stars for GitHub, score
\* for HackerNews and Reddit, reaction count for Dev.to, tag count for Stack
\* Overflow), and only a raw idea carrying no signal is scored from the
\* default, which gives the baseline 70.
C23_SourceSignalScored ==
    (~use_ai /\ OptimizeReturned /\ opt_raw_idea \in FetchedIdeas) =>
        /\ opt_return.viral_score =
               Min(98, (opt_raw_idea[PopularityKey(opt_raw_idea.source)] \div 100) + 70)
        /\ (SignalKeys \cap DOMAIN opt_raw_idea # {}) =>
               \E k \in SignalKeys \cap DOMAIN opt_raw_idea : SignalRead(opt_raw_idea) = opt_raw_idea[k]

\* C24 (as claimed): with the model in use, a response that holds the
\* valid 11-scene JSON object, whatever text precedes or follows it (further
\* braces included), yields the model's script rather than the template.
C24_FirstBalancedObjectParsed ==
    (use_groq /\ s_pc \in {"convert", "done"} /\ s_reply.kind = "text"
        /\ Contains(s_reply.content, ModelScriptText(11))) =>
            s_script = ModelScript(11)

\* gen_image has ended, by returning or by raising
ImageEnded == img_pc \in {"done", "raised"}

\* the requests of the call that brought a 200 response whose saved file
\* is larger than 1024 bytes
GoodAttempts ==
    {i \in 1..Len(img_responses) :
        /\ img_responses[i].kind = "http"
        /\ img_responses[i].status = 200
        /\ img_responses[i].size > 1024
        /\ img_writable}

\* C30 (as claimed): gen_image issues at most 5 requests, stops at the
\* first response that is 200 with a saved file larger than 1024 bytes,
\* otherwise falls back to the placeholder, never raises from the request
\* loop, and on every path leaves a file at image_path.
C30_AlwaysLeavesFile ==
    /\ Len(img_responses) <= 5
    /\ GoodAttempts \subseteq {Len(img_responses)}
    /\ GoodAttempts # {} => (img_pc = "done" /\ img_file = [from |-> "response", size |-> img_responses[Len(img_responses)].size])
    /\ img_pc = "raised" => Len(img_responses) = 5
    /\ ImageEnded => img_file # AbsentFile

\* C30 (amended): gen_image issues at most 5 requests, stops at the first
\* response that is 200 with a saved file larger than 1024 bytes, otherwise
\* falls back to the placeholder (or a black image when drawing it fails)
\* after exactly 5 requests, and never raises from the request loop; when
\* image_path can be written it returns and leaves there the file it wrote,
\* and when image_path cannot be written it raises from the fallback and
\* leaves image_path as it found it.
C30_LeavesFileWhenWritable ==
    /\ Len(img_responses) <= 5
    /\ GoodAttempts \subseteq {Len(img_responses)}
    /\ GoodAttempts # {} => (img_pc = "done" /\ img_file = [from |-> "response", size |-> img_responses[Len(img_responses)].size])
    /\ (GoodAttempts = {} /\ ImageEnded) =>
           /\ Len(img_responses) = 5
           /\ img_writable => (img_pc = "done" /\ img_file.from \in {"placeholder", "black"})
           /\ ~img_writable => (img_pc = "raised" /\ img_file \in {AbsentFile, EarlierFile})
    /\ (img_pc \in {"request", "placeholder"} /\ ~img_writable) => img_file \in {AbsentFile, EarlierFile}
    /\ img_pc = "placeholder" => Len(img_responses) = 5

\* C30 witness: five requests that failed in different ways, a small file
\* among them, and then the placeholder over it
C30_Witness ==
    /\ img_pc = "done"
    /\ img_writable
    /\ Len(img_responses) = 5
    /\ img_responses[1] = Timeout
    /\ img_responses[3] = ImageResponse(200, 1024)
    /\ img_file.from = "placeholder"

\* C25 (as claimed): the image and audio used for scene n of a run's video,
\* and its subtitles, are generated from that run's own script, never taken
\* from files an earlier run left on disk.
C25_OwnFilesUsed ==
    \A k \in DOMAIN p_used :
        IF k = "subtitles" THEN p_used[k] = p_run
        ELSE p_used[k].image = p_run /\ p_used[k].audio = p_run

\* the value of YOUTUBE_PRIVACY_STATUS, None when it is not set
PrivacySetting == Get(p_environ, "YOUTUBE_PRIVACY_STATUS", None)

\* C22 (as claimed): a video is uploaded with privacy status "public" only
\* if YOUTUBE_PRIVACY_STATUS is set to "public"; under every other
\* configuration, the default included, an upload is made "unlisted".
C22_PublicOnlyIfSetPublic ==
    \A i \in 1..Len(uploads) :
        uploads[i].privacyStatus = (IF PrivacySetting = "public" THEN "public" ELSE "unlisted")

\* C22 (amended): a video is uploaded with privacy status "public" only if
\* YOUTUBE_PRIVACY_STATUS is set to "public" in any letter case ("Public",
\* "PUBLIC", ...); under every other configuration, the default included, an
\* upload is made "unlisted".
C22_PublicOnlyIfSetPublicAnyCase ==
    \A i \in 1..Len(uploads) :
        uploads[i].privacyStatus =
            (IF PrivacySetting # None /\ Lower(PrivacySetting) = "public" THEN "public" ELSE "unlisted")

\* C22 witness: automatic uploads by two runs, public under the setting "PUBLIC"
C22_Witness ==
    /\ Len(uploads) = 2
    /\ PrivacySetting = "PUBLIC"
    /\ uploads[2].privacyStatus = "public"
    /\ p_pc = "returned"

\* the steps of run_full_pipeline in the order of its code
StepOrder == <<"idea", "script", "metadata", "video", "thumbnail", "upload_video", "save", "cleanup">>

StepPos(step) == CHOOSE i \in 1..Len(StepOrder) : StepOrder[i] = step

\* the steps every run goes through; the uploader and the cleanup are conditional
AlwaysSteps == {"idea", "script", "metadata", "video", "thumbnail", "save"}

StepsDone == {p_events[i].step : i \in 1..Len(p_events)}

\* C28: in run_full_pipeline the steps occur in the order idea, script,
\* metadata, video, thumbnail, upload, save metadata, cleanup, none skipped
\* but the upload and the cleanup; the uploader is invoked at most once per
\* run, only after create_video returned, never when manual_upload is true
\* or auto_upload is disabled; a step that raises ends the run, and when a
\* step before saving metadata raised, the run has no upload, no metadata
\* write and no cleanup.
C28_StepsInOrder ==
    /\ \A i, j \in 1..Len(p_events) :
           i < j => /\ StepPos(p_events[i].step) < StepPos(p_events[j].step)
                    /\ p_events[i].outcome = "returned"
    /\ \A i \in 1..Len(p_events) :
           \A step \in AlwaysSteps :
               StepPos(step) < StepPos(p_events[i].step) => step \in StepsDone
    /\ "upload_video" \in StepsDone =>
           /\ ~p_manual
           /\ p_config.auto_upload
           /\ Event("video", "returned") \in Range(p_events)
    /\ Cardinality({i \in 1..Len(uploads) : uploads[i].run = p_run})
           <= (IF "upload_video" \in StepsDone THEN 1 ELSE 0)
    /\ (\E step \in {"idea", "script", "metadata", "video", "thumbnail"} :
            Event(step, "raised") \in Range(p_events)) =>
           /\ p_pc = "raised"
           /\ StepsDone \cap {"upload_video", "save", "cleanup"} = {}
           /\ \A i \in 1..Len(uploads) : uploads[i].run # p_run
    /\ (p_pc = "raised") <=>
           (p_events # <<>> /\ p_events[Len(p_events)].outcome = "raised")

\* C28 witness: a second run that went through all eight steps, upload and
\* cleanup included, after a first run without upload
C28_Witness ==
    /\ p_run = 2
    /\ p_pc = "returned"
    /\ [i \in 1..Len(p_events) |-> p_events[i].step] = StepOrder
    /\ Len(uploads) = 1
    /\ disk = NoFiles

\* the scheduled runs whose job() has returned
RunsEnded == {i \in 1..Len(sched_runs) : sched_runs[i].outcome # None}

\* runs never overlap, each starts one period after the previous one
\* returned, every raise is logged and the loop goes on
ScheduleKeepsGoing ==
    /\ sched_pc # "crashed"
    /\ sched_errors = Cardinality({i \in RunsEnded : sched_runs[i].outcome = "raised"})
    /\ \A i \in 1..Len(sched_runs) :
           /\ i < Len(sched_runs) => i \in RunsEnded
           /\ sched_runs[i].start = (IF i = 1 THEN 0 ELSE sched_runs[i - 1].end) + Period
    /\ sched_pc = "job" <=> (sched_runs # <<>> /\ Len(sched_runs) \notin RunsEnded)
    /\ (sched_pc \in {"poll", "sleep"} /\ sched_runs # <<>>) =>
           next_run = sched_runs[Len(sched_runs)].end + Period

\* the last run raised and the scheduler was not stopped by the operator
RaisedAndStillOn(n) ==
    /\ Len(sched_runs) = n
    /\ n \in RunsEnded
    /\ sched_runs[n].outcome = "raised"
    /\ sched_runs[n].end + Period <= MaxClock

\* C29: a scheduled run that raises does not stop the scheduler: the error
\* is logged, the loop keeps polling, and unless the operator interrupts it
\* the next run starts one interval after the failed one returned; runs
\* never overlap, each starting only after the previous one returned.
C29_RaisedRunDoesNotStopScheduler ==
    /\ []ScheduleKeepsGoing
    /\ \A n \in 1..3 :
           RaisedAndStillOn(n) ~> (Len(sched_runs) > n \/ sched_pc = "stopped")

\* C29 witness: a run that raised, and the next run started after it
C29_Witness ==
    /\ Len(sched_runs) = 2
    /\ sched_runs[1].outcome = "raised"
    /\ sched_runs[1].end = 62
    /\ sched_runs[2].start = 122
    /\ sched_errors = 1

\* optimize_metadata has returned
MetadataReturned == seo_pc = "done" /\ seo_args.fn = "optimize_metadata"

\* C26 (as claimed): the seo_score of the record optimize_metadata returns
\* is the score of that record's own title, description and tags.
C26_ScoreOfOwnRecord ==
    MetadataReturned =>
        seo_return.seo_score = calculate_seo_score(seo_return.title, seo_return.description, seo_return.tags)

\* the narration of the script generate_script returned, scene after scene
NarrationText ==
    Join("", [i \in 1..Len(script_json.scene) |-> script_json.scene[i].value.narration \o " "])

\* C27 (as claimed): optimize_metadata derives the description's learning
\* points from the narration of the script generate_script returned for the
\* same idea, and from the idea's description only when the script has no
\* narration.
C27_PointsFromNarration ==
    MetadataReturned =>
        LET source == IF NarrationText = "" THEN Get(s_idea, "description", "") ELSE NarrationText
        IN  seo_return.description =
                generate_description(s_idea.title, source, MetadataKeywords(s_idea))

====
